---- MODULE Spec2Model ----
(***************************************************************************)
(* The diagram-notation translators (plantuml_generator.py) and the        *)
(* syntax-repair engine (plantuml_syntax_fixer.py) as state machines.      *)
(*                                                                         *)
(* A Python str is a sequence of one-character strings; "\n" is the line   *)
(* break.  The Cyrillic letters the translator looks for are the           *)
(* characters cy_k, cy_a, cy_l, cy_i (small) and CY_K, CY_A, CY_L, CY_I    *)
(* (capital).  Each call of a function is one run of the machine: the      *)
(* argument is chosen in Init, every loop iteration is one step, and the   *)
(* call ends in pc = "done" (ret holds the return value) or, when Python   *)
(* raises, in pc = "raised".                                               *)
(***************************************************************************)
EXTENDS Integers, Sequences, FiniteSets, TLC

VARIABLES
  fn,             \* the function being called
  pc,             \* position in the function body
  arg,            \* the call's argument
  lines,          \* the notation lines the parsing loop has still to visit
  nodes,          \* generateBPMNDiagram: nodes = {} (insertion-ordered dict)
  actors,         \* generateUseCaseDiagram: actors = {}
  usecases,       \* generateUseCaseDiagram: usecases = {}
  connections,    \* connections = []
  source_id,      \* the local source_id (Unbound until first assigned)
  todo,           \* the connections the output loop has still to visit
  plantuml_lines, \* plantuml_lines = [...]
  fixed_code,     \* auto_fix_plantuml: fixed_code
  fixes_applied,  \* auto_fix_plantuml: fixes_applied
  ret,            \* the return value of the call
  history,        \* the calls completed before this one: <<[arg, ret], ...>>
  plantuml_code   \* render_plantuml: the text it hands to a renderer

vars == <<fn, pc, arg, lines, nodes, actors, usecases, connections, source_id,
          todo, plantuml_lines, fixed_code, fixes_applied, ret, history,
          plantuml_code>>

-----------------------------------------------------------------------------
(* Bounds of the model *)

\* the longest notation text given to a translator, in lines
MaxLines == 3
\* the longest diagram text given to the repair engine, in lines
MaxFixLines == 2
\* the calls of auto_fix_plantuml one run makes, each on the text the last returned
MaxCalls == 2
\* the calls one process makes, of any of the four functions
MaxSequence == 3

-----------------------------------------------------------------------------
(* Characters *)

NL == "\n"
cy_k == "cy_k"
cy_a == "cy_a"
cy_l == "cy_l"
cy_i == "cy_i"
CY_K == "CY_K"
CY_A == "CY_A"
CY_L == "CY_L"
CY_I == "CY_I"

\* str.isspace: the characters strip() removes and \s matches
IsSpace(c) == c \in {" ", NL}

SmallLetters ==
  {"a","b","c","d","e","f","g","h","i","j","k","l","m","n","o","p","q","r",
   "s","t","u","v","w","x","y","z", cy_k, cy_a, cy_l, cy_i}
CapitalLetters ==
  {"A","B","C","D","E","F","G","H","I","J","K","L","M","N","O","P","Q","R",
   "S","T","U","V","W","X","Y","Z", CY_K, CY_A, CY_L, CY_I}

Digits == {"0","1","2","3","4","5","6","7","8","9"}

\* the regular expression class \w
IsWord(c) == c \in SmallLetters \cup CapitalLetters \cup Digits \cup {"_"}

\* str.lower, one character
LowerChar(c) ==
  CASE c = CY_K -> cy_k
    [] c = CY_A -> cy_a
    [] c = CY_L -> cy_l
    [] c = CY_I -> cy_i
    [] c = "A" -> "a" [] c = "B" -> "b" [] c = "C" -> "c" [] c = "D" -> "d"
    [] c = "E" -> "e" [] c = "F" -> "f" [] c = "G" -> "g" [] c = "H" -> "h"
    [] c = "I" -> "i" [] c = "J" -> "j" [] c = "K" -> "k" [] c = "L" -> "l"
    [] c = "M" -> "m" [] c = "N" -> "n" [] c = "O" -> "o" [] c = "P" -> "p"
    [] c = "Q" -> "q" [] c = "R" -> "r" [] c = "S" -> "s" [] c = "T" -> "t"
    [] c = "U" -> "u" [] c = "V" -> "v" [] c = "W" -> "w" [] c = "X" -> "x"
    [] c = "Y" -> "y" [] c = "Z" -> "z"
    [] OTHER -> c

-----------------------------------------------------------------------------
(* Python str and re operations *)

\* str.lower
Lower(s) == [i \in 1..Len(s) |-> LowerChar(s[i])]

\* s.startswith(p)
StartsWith(s, p) == Len(p) <= Len(s) /\ SubSeq(s, 1, Len(p)) = p

\* the positions at which p occurs in s
Occurrences(s, p) ==
  {i \in 1..(Len(s) - Len(p) + 1) : SubSeq(s, i, i + Len(p) - 1) = p}

\* p in s
Contains(s, p) == Occurrences(s, p) # {}

SetMin(S) == CHOOSE m \in S : \A n \in S : m <= n

\* str.lstrip, str.rstrip, str.strip
LStrip(s) ==
  LET keep == {i \in 1..Len(s) : ~IsSpace(s[i])}
  IN  IF keep = {} THEN <<>> ELSE SubSeq(s, SetMin(keep), Len(s))

RStrip(s) ==
  LET keep == {i \in 1..Len(s) : ~IsSpace(s[i])}
  IN  IF keep = {} THEN <<>>
      ELSE SubSeq(s, 1, CHOOSE m \in keep : \A n \in keep : n <= m)

Strip(s) == LStrip(RStrip(s))

\* s.split(sep): the parts between the occurrences of sep, left to right
RECURSIVE Split(_, _)
Split(s, sep) ==
  LET occ == Occurrences(s, sep)
  IN  IF occ = {} THEN <<s>>
      ELSE LET i == SetMin(occ)
           IN  <<SubSeq(s, 1, i - 1)>>
                 \o Split(SubSeq(s, i + Len(sep), Len(s)), sep)

\* sep.join(parts)
RECURSIVE Join(_, _)
Join(parts, sep) ==
  IF parts = <<>> THEN <<>>
  ELSE IF Len(parts) = 1 THEN parts[1]
  ELSE parts[1] \o sep \o Join(Tail(parts), sep)

\* a replace that stops after the leftmost occurrence: what C11 would not
\* survive
ReplaceFirst(s, old, new) ==
  LET occ == Occurrences(s, old)
  IN  IF occ = {} THEN s
      ELSE LET i == SetMin(occ)
           IN  SubSeq(s, 1, i - 1) \o new \o SubSeq(s, i + Len(old), Len(s))

\* s.replace(old, new)
RECURSIVE Replace(_, _, _)
Replace(s, old, new) ==
  LET occ == Occurrences(s, old)
  IN  IF occ = {} THEN s
      ELSE LET i == SetMin(occ)
           IN  SubSeq(s, 1, i - 1) \o new
                 \o Replace(SubSeq(s, i + Len(old), Len(s)), old, new)

\* re.match(r'^(\w+)', s).group(1); <<>> when there is no match
WordPrefix(s) ==
  LET stops == {i \in 1..Len(s) : ~IsWord(s[i])}
  IN  IF stops = {} THEN s ELSE SubSeq(s, 1, SetMin(stops) - 1)

\* the leftmost match of open [^close]+ close in s, as <<first, last>>; <<>> when
\* there is none
DelimitedSpan(s, open, close) ==
  LET starts ==
        {p \in 1..Len(s) :
           /\ s[p] = open
           /\ \E q \in (p + 2)..Len(s) :
                s[q] = close /\ \A r \in (p + 1)..(q - 1) : s[r] # close}
  IN  IF starts = {} THEN <<>>
      ELSE LET p == SetMin(starts)
               q == SetMin({r \in (p + 2)..Len(s) : s[r] = close})
           IN  <<p, q>>

\* re.search(r'\[([^\]]+)\]', s).group(1) and its like; <<>> when there is no match
\* (a group is never empty)
DelimitedGroup(s, open, close) ==
  LET m == DelimitedSpan(s, open, close)
  IN  IF m = <<>> THEN <<>> ELSE SubSeq(s, m[1] + 1, m[2] - 1)

\* re.sub(r'\|[^|]+\|', '', s)
RECURSIVE RemoveLabels(_)
RemoveLabels(s) ==
  LET m == DelimitedSpan(s, "|", "|")
  IN  IF m = <<>> THEN s
      ELSE SubSeq(s, 1, m[1] - 1) \o RemoveLabels(SubSeq(s, m[2] + 1, Len(s)))

-----------------------------------------------------------------------------
(* Python dict, in insertion order: a sequence of [id, text] *)

DictHas(d, k) == \E i \in 1..Len(d) : d[i].id = k

\* what d[k] gives for a key d does not hold (Python raises KeyError)
KeyError == <<"<KeyError>">>

DictGet(d, k) ==
  IF DictHas(d, k) THEN d[CHOOSE i \in 1..Len(d) : d[i].id = k].text
  ELSE KeyError

\* an assignment that moves a known key to the end: what C18 would not survive
DictSetMovesLast(d, k, v) ==
  Append(SelectSeq(d, LAMBDA e : e.id # k), [id |-> k, text |-> v])

\* d[k] = v: a new key goes last, a known key keeps its place
DictSet(d, k, v) ==
  IF DictHas(d, k)
  THEN [i \in 1..Len(d) |-> IF d[i].id = k THEN [id |-> k, text |-> v] ELSE d[i]]
  ELSE Append(d, [id |-> k, text |-> v])

\* the value of a local variable that was never assigned
Unbound == <<>>

\* the value of ret while the call has not returned
NoValue == <<"<none>">>

Arrow == <<"-","-",">">>
DashedArrow == <<"-",".","-",">">>

-----------------------------------------------------------------------------
(* generateBPMNDiagram *)

BPMN == "generateBPMNDiagram"

\* the return value when the key is missing
BPMNSkeleton == <<"@","s","t","a","r","t","u","m","l">> \o <<NL>> \o <<"t","i","t","l","e"," ","B","P","M","N"," ","D","i","a","g","r","a","m">> \o <<NL>> \o <<"@","e","n","d","u","m","l">>

BPMNHeader ==
  << <<"@","s","t","a","r","t","u","m","l">>, <<"!","t","h","e","m","e"," ","p","l","a","i","n">>, <<"t","i","t","l","e"," ","B","P","M","N"," ","P","r","o","c","e","s","s"," ","D","i","a","g","r","a","m">>,
     <<"s","k","i","n","p","a","r","a","m"," ","p","a","r","t","i","c","i","p","a","n","t"," ","{">>, <<" "," ","B","a","c","k","g","r","o","u","n","d","C","o","l","o","r"," ","L","i","g","h","t","G","r","e","e","n">>,
     <<" "," ","B","o","r","d","e","r","C","o","l","o","r"," ","D","a","r","k","G","r","e","e","n">>, <<"}">>,
     <<"s","k","i","n","p","a","r","a","m"," ","a","c","t","i","v","i","t","y"," ","{">>, <<" "," ","B","a","c","k","g","r","o","u","n","d","C","o","l","o","r"," ","L","i","g","h","t","B","l","u","e">>,
     <<" "," ","B","o","r","d","e","r","C","o","l","o","r"," ","D","a","r","k","B","l","u","e">>, <<"}">>,
     <<"s","k","i","n","p","a","r","a","m"," ","d","e","c","i","s","i","o","n"," ","{">>, <<" "," ","B","a","c","k","g","r","o","u","n","d","C","o","l","o","r"," ","L","i","g","h","t","Y","e","l","l","o","w">>,
     <<" "," ","B","o","r","d","e","r","C","o","l","o","r"," ","O","r","a","n","g","e">>, <<"}">> >>

\* lines = mermaid_code.strip().split('\n'), less a first 'flowchart' line
NotationLines(mermaid_code) ==
  LET ls == Split(Strip(mermaid_code), <<NL>>)
  IN  IF StartsWith(Strip(ls[1]), <<"f","l","o","w","c","h","a","r","t">>) THEN Tail(ls) ELSE ls

\* a registration that keeps the text an identifier already has: what C22 would
\* not survive
RegisterNodeKeepsFirst(d, id, part) ==
  LET text == DelimitedGroup(part, "[", "]")
      cond == DelimitedGroup(part, "{", "}")
  IN  IF DictHas(d, id) THEN d
      ELSE IF text # <<>> THEN DictSet(d, id, text)
      ELSE IF cond # <<>> THEN DictSet(d, id, cond)
      ELSE d

\* nodes[id] = the [text] of part, else its {text}, else nothing
RegisterNode(d, id, part) ==
  LET text == DelimitedGroup(part, "[", "]")
      cond == DelimitedGroup(part, "{", "}")
  IN  IF text # <<>> THEN DictSet(d, id, text)
      ELSE IF cond # <<>> THEN DictSet(d, id, cond)
      ELSE d

\* the label of a target part ("" when it has none) and the part without labels
LabelOf(target_part) == DelimitedGroup(target_part, "|", "|")

WithoutLabel(target_part) ==
  IF LabelOf(target_part) # <<>> THEN Strip(RemoveLabels(target_part))
  ELSE target_part

\* the test of line 120 without its two calls of lower(): what C7 would not
\* survive
IsConditionNoLower(source_text) ==
  \/ Contains(source_text, <<"?">>)
  \/ Contains(source_text, <<cy_k, cy_a, cy_k>>)
  \/ Contains(source_text, <<cy_l, cy_i>>)

\* the test that makes a source node a condition
IsCondition(source_text) ==
  \/ Contains(source_text, <<"?">>)
  \/ Contains(Lower(source_text), <<cy_k, cy_a, cy_k>>)
  \/ Contains(Lower(source_text), <<cy_l, cy_i>>)

\* the output lines of one connection whose two ends are in nodes
EdgeLines(source_text, target_text, label) ==
  LET step == IF label # <<>>
              THEN <<"-","-",">","[","\"">> \o label \o <<"\"","]"," ","\"">> \o target_text \o <<"\"">>
              ELSE <<"-","-",">"," ","\"">> \o target_text \o <<"\"">>
  IN  IF IsCondition(source_text)
      THEN << <<"i","f"," ","\"">> \o source_text \o <<"\""," ","t","h","e","n">>, <<" "," ">> \o step >>
      ELSE << step >>

\* the test of line 114 without its second conjunct: what C6 would not survive
EdgeEmittedTargetUnchecked(d, conn) == DictHas(d, conn.source)

\* whether the output loop writes anything for a connection
EdgeEmitted(d, conn) == DictHas(d, conn.source) /\ DictHas(d, conn.target)

\* nodes kept from the call before: what C14 would not survive
NodesLeftOver == nodes

\* nodes = {} (line 51)
NewNodes == <<>>

\* an edge list that takes an edge only once: what C21 would not survive
AppendEdgeOnce(conns, edge) ==
  IF \E i \in 1..Len(conns) : conns[i] = edge THEN conns ELSE Append(conns, edge)

\* connections.append((source_id, target_id, label)) (line 102)
AppendEdge(conns, edge) == Append(conns, edge)

\* lines 20-52: the skeleton return, or the header, the lines and the empty
\* tables
BPMNCall ==
  /\ fn = BPMN /\ pc = "call"
  /\ IF arg.keys = {} \/ "bpmn_mermaid" \notin arg.keys
     THEN /\ ret' = BPMNSkeleton
          /\ pc' = "done"
          /\ UNCHANGED <<lines, plantuml_lines, nodes, connections>>
     ELSE /\ plantuml_lines' = BPMNHeader
          /\ lines' = NotationLines(arg.text)
          /\ nodes' = NewNodes
          /\ connections' = <<>>
          /\ pc' = "parse"
          /\ ret' = ret
  /\ UNCHANGED <<fn, arg, actors, usecases, source_id, todo, fixed_code,
                 fixes_applied, history,
                 plantuml_code>>

\* one pass of the parsing loop
BPMNParseLine ==
  /\ fn = BPMN /\ pc = "parse" /\ lines # <<>>
  /\ LET line == Strip(Head(lines))
     IN  IF line = <<>> \/ StartsWith(line, <<"%","%">>) \/ ~Contains(line, Arrow)
         THEN /\ lines' = Tail(lines)
              /\ UNCHANGED <<pc, nodes, connections, source_id>>
         ELSE LET parts == Split(line, Arrow)
                  source_part == Strip(parts[1])
                  source_match == WordPrefix(source_part)
                  new_source == IF source_match # <<>> THEN source_match
                                ELSE source_id
                  nodes1 == IF source_match # <<>>
                            THEN RegisterNode(nodes, source_match, source_part)
                            ELSE nodes
                  label == LabelOf(Strip(parts[2]))
                  target_part == WithoutLabel(Strip(parts[2]))
                  target_match == WordPrefix(target_part)
              IN  IF Len(parts) < 2
                  THEN /\ lines' = Tail(lines)
                       /\ UNCHANGED <<pc, nodes, connections, source_id>>
                  ELSE /\ source_id' = new_source
                       /\ IF target_match = <<>>
                          THEN /\ nodes' = nodes1
                               /\ lines' = Tail(lines)
                               /\ UNCHANGED <<pc, connections>>
                          ELSE /\ nodes' = RegisterNode(nodes1, target_match,
                                                        target_part)
                               /\ IF new_source = Unbound
                                  THEN \* UnboundLocalError at line 102
                                       /\ pc' = "raised"
                                       /\ UNCHANGED <<lines, connections>>
                                  ELSE /\ connections' =
                                            AppendEdge(connections,
                                                   [source |-> new_source,
                                                    target |-> target_match,
                                                    label |-> label])
                                       /\ lines' = Tail(lines)
                                       /\ pc' = pc
  /\ UNCHANGED <<fn, arg, actors, usecases, todo, plantuml_lines, fixed_code,
                 fixes_applied, ret, history,
                 plantuml_code>>

\* the entry of the key that was inserted last: what C20 would not survive
LastNode(d) == d[Len(d)]

\* start_node = list(nodes.keys())[0], with its text
StartNode(d) == d[1]

\* after the parsing loop: the separator and the start marker
BPMNEmitStart ==
  /\ fn = BPMN /\ pc = "parse" /\ lines = <<>>
  /\ IF nodes # <<>>
     THEN /\ plantuml_lines' = plantuml_lines
               \o << <<"|">>, <<"(","*",")"," ","-","-",">"," ","\"">> \o StartNode(nodes).text \o <<"\"">> >>
          /\ todo' = connections
     ELSE /\ plantuml_lines' = Append(plantuml_lines, <<"|">>)
          /\ todo' = <<>>
  /\ pc' = "emit"
  /\ UNCHANGED <<fn, arg, lines, nodes, actors, usecases, connections, source_id,
                 fixed_code, fixes_applied, ret, history,
                 plantuml_code>>

\* one pass of the output loop
BPMNEmitEdge ==
  /\ fn = BPMN /\ pc = "emit" /\ todo # <<>>
  /\ LET conn == Head(todo)
     IN  IF EdgeEmitted(nodes, conn)
         THEN plantuml_lines' = plantuml_lines
                \o EdgeLines(DictGet(nodes, conn.source),
                             DictGet(nodes, conn.target), conn.label)
         ELSE plantuml_lines' = plantuml_lines
  /\ todo' = Tail(todo)
  /\ UNCHANGED <<fn, pc, arg, lines, nodes, actors, usecases, connections,
                 source_id, fixed_code, fixes_applied, ret, history,
                 plantuml_code>>

\* the end marker, the footer and the return
BPMNReturn ==
  /\ fn = BPMN /\ pc = "emit" /\ todo = <<>>
  /\ plantuml_lines' = plantuml_lines \o << <<"-","-",">"," ","(","*",")">>, <<"@","e","n","d","u","m","l">> >>
  /\ ret' = Join(plantuml_lines', <<NL>>)
  /\ pc' = "done"
  /\ UNCHANGED <<fn, arg, lines, nodes, actors, usecases, connections, source_id,
                 todo, fixed_code, fixes_applied, history,
                 plantuml_code>>

\* the notation lines the process-flow translator is given
BPMNInputLines ==
  { <<"A","[","a","]"," ","-","-",">"," ","B","[","b","]">>,
    <<" "," ","B","[","b","]"," ","-","-",">"," ","C","{","c","?","}">>,
    <<"C","{","c","?","}"," ","-","-",">","|","y","|"," ","A","[","a","]">>,
    <<"A"," ","-","-",">"," ","B">>,
    <<"-","-",">"," ","B","[","b","]">>,
    <<"[","a","]"," ","-","-",">"," ","C","[","d","]">>,
    <<"A","[">> \o <<CY_K, cy_a, cy_k>> \o <<"]"," ","-","-",">"," ","D">>,
    <<"B","[">> \o <<cy_l, CY_I>> \o <<"]"," ","-","-",">","|","n","|"," ","A">>,
    <<"%","%"," ","x">>,
    <<"f","l","o","w","c","h","a","r","t"," ","T","D">>,
    <<>>,
    <<"A","[","a","]">> }

RECURSIVE TextsOf(_, _)
\* the texts of 1..n lines drawn from a set of lines
TextsOf(lineSet, n) ==
  IF n = 1 THEN lineSet
  ELSE LET shorter == TextsOf(lineSet, n - 1)
       IN  shorter \cup {t \o <<NL>> \o l : t \in shorter, l \in lineSet}

\* processData: {} , a dict without the key, a dict with the key
BPMNArgs ==
  { [keys |-> {}, text |-> <<>>], [keys |-> {"other"}, text |-> <<>>] }
    \cup { [keys |-> {"bpmn_mermaid"}, text |-> t] :
             t \in TextsOf(BPMNInputLines, MaxLines) }

Fresh ==
  /\ pc = "call"
  /\ lines = <<>> /\ nodes = <<>> /\ actors = <<>> /\ usecases = <<>>
  /\ connections = <<>> /\ source_id = Unbound /\ todo = <<>>
  /\ plantuml_lines = <<>> /\ fixed_code = <<>> /\ fixes_applied = <<>>
  /\ ret = NoValue /\ history = <<>> /\ plantuml_code = <<>>

InitBPMN == fn = BPMN /\ arg \in BPMNArgs /\ Fresh

NextBPMN ==
  \/ BPMNCall
  \/ BPMNParseLine
  \/ BPMNEmitStart
  \/ BPMNEmitEdge
  \/ BPMNReturn

SpecBPMN == InitBPMN /\ [][NextBPMN]_vars

-----------------------------------------------------------------------------
(* generateUseCaseDiagram *)

UC == "generateUseCaseDiagram"

\* the return value when the key is missing
UCSkeleton ==
  <<"@","s","t","a","r","t","u","m","l">> \o <<NL>> \o <<"t","i","t","l","e"," ","U","s","e"," ","C","a","s","e"," ","D","i","a","g","r","a","m">> \o <<NL>> \o <<"@","e","n","d","u","m","l">>

UCHeader ==
  << <<"@","s","t","a","r","t","u","m","l">>, <<"!","t","h","e","m","e"," ","p","l","a","i","n">>, <<"t","i","t","l","e"," ","U","s","e"," ","C","a","s","e"," ","D","i","a","g","r","a","m">>,
     <<"l","e","f","t"," ","t","o"," ","r","i","g","h","t"," ","d","i","r","e","c","t","i","o","n">>,
     <<"s","k","i","n","p","a","r","a","m"," ","a","c","t","o","r"," ","{">>, <<" "," ","B","a","c","k","g","r","o","u","n","d","C","o","l","o","r"," ","L","i","g","h","t","G","r","e","e","n">>,
     <<" "," ","B","o","r","d","e","r","C","o","l","o","r"," ","D","a","r","k","G","r","e","e","n">>, <<"}">>,
     <<"s","k","i","n","p","a","r","a","m"," ","u","s","e","c","a","s","e"," ","{">>, <<" "," ","B","a","c","k","g","r","o","u","n","d","C","o","l","o","r"," ","L","i","g","h","t","B","l","u","e">>,
     <<" "," ","B","o","r","d","e","r","C","o","l","o","r"," ","D","a","r","k","B","l","u","e">>, <<"}">> >>

\* whether p stands in s at position i
At(s, i, p) == i + Len(p) - 1 <= Len(s) /\ SubSeq(s, i, i + Len(p) - 1) = p

\* re.match(r'^(\w+)\[([^\]]+)\]', s) with open = "[", close = "]" and
\* re.match(r'^(\w+)\(\(([^)]+)\)\)', s) with open = "((", close = "))":
\* <<group 1, group 2>>, or <<>> when there is no match
NodeMatch(s, open, close) ==
  LET id == WordPrefix(s)
      from == Len(id) + Len(open) + 1
      ends == {q \in from..Len(s) : s[q] = close[1]}
  IN  IF id = <<>> \/ ~At(s, Len(id) + 1, open) \/ ends = {} THEN <<>>
      ELSE LET q == SetMin(ends)
           IN  IF q > from /\ At(s, q, close)
               THEN <<id, SubSeq(s, from, q - 1)>>
               ELSE <<>>

\* the form tests of lines 204/212 and 230/239: "actor", "usecase" or "none"
PartKind(part) ==
  IF Contains(part, <<"[">>) /\ ~Contains(part, <<"(">>) THEN "actor"
  ELSE IF Contains(part, <<"(","(">>) THEN "usecase"
  ELSE "none"

\* a match that takes a bare identifier for a node: what C19 would not survive
PartMatchBareId(part) ==
  CASE PartKind(part) = "actor" -> NodeMatch(part, <<"[">>, <<"]">>)
    [] PartKind(part) = "usecase" -> NodeMatch(part, <<"(","(">>, <<")",")">>)
    [] OTHER -> IF WordPrefix(part) # <<>> THEN <<WordPrefix(part), <<>>>> ELSE <<>>

\* the match of a part against the form its kind names; <<>> when there is none
PartMatch(part) ==
  CASE PartKind(part) = "actor" -> NodeMatch(part, <<"[">>, <<"]">>)
    [] PartKind(part) = "usecase" -> NodeMatch(part, <<"(","(">>, <<")",")">>)
    [] OTHER -> <<>>

\* a relation line that leaves the label out: what C25 would not survive
RelationLineUnlabelled(conn) ==
  conn.source \o <<" ">> \o conn.type \o <<" ">> \o conn.target

\* the relation line of one connection
RelationLine(conn) ==
  IF conn.label # <<>>
  THEN IF conn.type = <<".","-",">">>
       THEN conn.source \o <<" ",".">> \o Tail(conn.type) \o <<" ","\"">> \o conn.label
              \o <<"\""," ">> \o conn.target
       ELSE conn.source \o <<" ">> \o conn.type \o <<" ","\"">> \o conn.label
              \o <<"\""," ">> \o conn.target
  ELSE conn.source \o <<" ">> \o conn.type \o <<" ">> \o conn.target

\* lines 153-182: the skeleton return, or the header, the lines and the empty
\* tables
UCCall ==
  /\ fn = UC /\ pc = "call"
  /\ IF arg.keys = {} \/ "usecase_mermaid" \notin arg.keys
     THEN /\ ret' = UCSkeleton
          /\ pc' = "done"
          /\ UNCHANGED <<lines, plantuml_lines, actors, usecases, connections>>
     ELSE /\ plantuml_lines' = UCHeader
          /\ lines' = NotationLines(arg.text)
          /\ actors' = <<>>
          /\ usecases' = <<>>
          /\ connections' = <<>>
          /\ pc' = "parse"
          /\ ret' = ret
  /\ UNCHANGED <<fn, arg, nodes, source_id, todo, fixed_code, fixes_applied,
                 history,
                 plantuml_code>>

\* one pass of the parsing loop
UCParseLine ==
  /\ fn = UC /\ pc = "parse" /\ lines # <<>>
  /\ LET line == Strip(Head(lines))
     IN  IF \/ line = <<>>
            \/ StartsWith(line, <<"%","%">>)
            \/ ~(Contains(line, Arrow) \/ Contains(line, DashedArrow))
         THEN /\ lines' = Tail(lines)
              /\ UNCHANGED <<pc, actors, usecases, connections, source_id>>
         ELSE LET solid == Contains(line, Arrow)
                  parts == IF solid THEN Split(line, Arrow)
                           ELSE Split(line, DashedArrow)
                  connection_type == IF solid THEN <<"-","-",">">> ELSE <<".","-",">">>
                  source_part == Strip(parts[1])
                  source_kind == PartKind(source_part)
                  source_match == PartMatch(source_part)
                  new_source == IF source_match # <<>> THEN source_match[1]
                                ELSE source_id
                  actors1 == IF source_match # <<>> /\ source_kind = "actor"
                             THEN DictSet(actors, source_match[1], source_match[2])
                             ELSE actors
                  usecases1 == IF source_match # <<>> /\ source_kind = "usecase"
                               THEN DictSet(usecases, source_match[1],
                                            source_match[2])
                               ELSE usecases
                  label == LabelOf(Strip(parts[2]))
                  target_part == WithoutLabel(Strip(parts[2]))
                  target_kind == PartKind(target_part)
                  target_match == PartMatch(target_part)
              IN  IF Len(parts) < 2
                  THEN /\ lines' = Tail(lines)
                       /\ UNCHANGED <<pc, actors, usecases, connections,
                                      source_id>>
                  ELSE /\ source_id' = new_source
                       /\ IF target_match = <<>>
                          THEN /\ actors' = actors1
                               /\ usecases' = usecases1
                               /\ lines' = Tail(lines)
                               /\ UNCHANGED <<pc, connections>>
                          ELSE /\ actors' =
                                    IF target_kind = "actor"
                                    THEN DictSet(actors1, target_match[1],
                                                 target_match[2])
                                    ELSE actors1
                               /\ usecases' =
                                    IF target_kind = "usecase"
                                    THEN DictSet(usecases1, target_match[1],
                                                 target_match[2])
                                    ELSE usecases1
                               /\ IF new_source = Unbound
                                  THEN \* UnboundLocalError at line 236 or 245
                                       /\ pc' = "raised"
                                       /\ UNCHANGED <<lines, connections>>
                                  ELSE /\ connections' =
                                            Append(connections,
                                                   [source |-> new_source,
                                                    target |-> target_match[1],
                                                    type |-> connection_type,
                                                    label |-> label])
                                       /\ lines' = Tail(lines)
                                       /\ pc' = pc
  /\ UNCHANGED <<fn, arg, nodes, todo, plantuml_lines, fixed_code, fixes_applied,
                 ret, history,
                 plantuml_code>>

\* after the parsing loop: the actor and use-case declarations
UCEmitDeclarations ==
  /\ fn = UC /\ pc = "parse" /\ lines = <<>>
  /\ plantuml_lines' = plantuml_lines
       \o [i \in 1..Len(actors) |->
             <<"a","c","t","o","r"," ","\"">> \o actors[i].text \o <<"\""," ","a","s"," ">> \o actors[i].id]
       \o << <<>> >>
       \o [i \in 1..Len(usecases) |->
             <<"u","s","e","c","a","s","e"," ","\"">> \o usecases[i].text \o <<"\""," ","a","s"," ">> \o usecases[i].id]
       \o << <<>> >>
  /\ todo' = connections
  /\ pc' = "emit"
  /\ UNCHANGED <<fn, arg, lines, nodes, actors, usecases, connections, source_id,
                 fixed_code, fixes_applied, ret, history,
                 plantuml_code>>

\* one pass of the output loop
UCEmitRelation ==
  /\ fn = UC /\ pc = "emit" /\ todo # <<>>
  /\ plantuml_lines' = Append(plantuml_lines, RelationLine(Head(todo)))
  /\ todo' = Tail(todo)
  /\ UNCHANGED <<fn, pc, arg, lines, nodes, actors, usecases, connections,
                 source_id, fixed_code, fixes_applied, ret, history,
                 plantuml_code>>

\* the footer and the return
UCReturn ==
  /\ fn = UC /\ pc = "emit" /\ todo = <<>>
  /\ plantuml_lines' = Append(plantuml_lines, <<"@","e","n","d","u","m","l">>)
  /\ ret' = Join(plantuml_lines', <<NL>>)
  /\ pc' = "done"
  /\ UNCHANGED <<fn, arg, lines, nodes, actors, usecases, connections, source_id,
                 todo, fixed_code, fixes_applied, history,
                 plantuml_code>>

\* the notation lines the actor-interaction translator is given
UCInputLines ==
  { <<"A","[","u","]"," ","-","-",">"," ","B","(","(","l",")",")">>,
    <<"A","[","u"," ","(","x",")","]"," ","-","-",">"," ","B","(","(","l",")",")">>,
    <<"B","[","w","]"," ","-",".","-",">"," ","A","(","(","v",")",")">>,
    <<"A"," ","-","-",">","|","d","o","e","s","|"," ","C","(","(","m",")",")">>,
    <<" "," ","B","(","(","l",")",")"," ","-",".","-",">","|","i","n","c","|"," ","C","(","(","m",")",")">>,
    <<"C","(","(","m",")",")"," ","-","-",">"," ","D">>,
    <<"C","(","(","m",")",")"," ","-","-",">"," ","A","[","k","]">>,
    <<"%","%"," ","x">>,
    <<"f","l","o","w","c","h","a","r","t"," ","L","R">>,
    <<>> }

\* actorData: {} , a dict without the key, a dict with the key
UCArgs ==
  { [keys |-> {}, text |-> <<>>], [keys |-> {"other"}, text |-> <<>>] }
    \cup { [keys |-> {"usecase_mermaid"}, text |-> t] :
             t \in TextsOf(UCInputLines, MaxLines) }

InitUC == fn = UC /\ arg \in UCArgs /\ Fresh

NextUC ==
  \/ UCCall
  \/ UCParseLine
  \/ UCEmitDeclarations
  \/ UCEmitRelation
  \/ UCReturn

SpecUC == InitUC /\ [][NextUC]_vars

-----------------------------------------------------------------------------
(* plantuml_syntax_fixer.py *)

\* An error message or a diagnostics entry is a sequence of strings: a first
\* string that names the message, then the characters of what the message
\* quotes (a count, an identifier, a line).

AUTOFIX == "auto_fix_plantuml"

\* code.split('\n')
CodeLines(code) == Split(code, <<NL>>)

\* stripped_line.startswith('if ')
IsIfLine(line) == StartsWith(Strip(line), <<"i","f"," ">>)

\* elif stripped_line.startswith('endif')
IsEndifLine(line) == ~IsIfLine(line) /\ StartsWith(Strip(line), <<"e","n","d","i","f">>)

\* l.insert(i, x), positions counted from 1
InsertAt(l, i, x) == SubSeq(l, 1, i - 1) \o <<x>> \o SubSeq(l, i, Len(l))

\* the scan of _validate_if_structure: the positions of the 'if ' lines that are
\* on the stack after the first k lines
RECURSIVE IfStack(_, _)
IfStack(ls, k) ==
  IF k = 0 THEN <<>>
  ELSE LET before == IfStack(ls, k - 1)
       IN  IF IsIfLine(ls[k]) THEN Append(before, k)
           ELSE IF IsEndifLine(ls[k]) /\ before # <<>>
                THEN SubSeq(before, 1, Len(before) - 1)
                ELSE before

\* the closing loop without the else of its inner for (lines 109-111): what C10
\* would not survive
RECURSIVE CloseOpenIfsNoAppend(_, _)
CloseOpenIfsNoAppend(fixed_lines, if_stack) ==
  IF if_stack = <<>> THEN fixed_lines
  ELSE LET found == {i \in (Head(if_stack) + 1)..Len(fixed_lines) :
                       Strip(fixed_lines[i]) # <<>>}
           closed == IF found = {} THEN fixed_lines
                     ELSE InsertAt(fixed_lines, SetMin(found), <<"e","n","d","i","f">>)
       IN  CloseOpenIfsNoAppend(closed, Tail(if_stack))

\* a closing loop that stops after the first position on the stack: what C29
\* would not survive
CloseFirstOpenIf(fixed_lines, if_stack) ==
  IF if_stack = <<>> THEN fixed_lines
  ELSE LET found == {i \in (Head(if_stack) + 1)..Len(fixed_lines) :
                       Strip(fixed_lines[i]) # <<>>}
       IN  IF found = {} THEN Append(fixed_lines, <<"e","n","d","i","f">>)
           ELSE InsertAt(fixed_lines, SetMin(found), <<"e","n","d","i","f">>)

\* the closing loop of _validate_if_structure: one 'endif' for each position on
\* the stack, put before the first non-blank line found after that position in
\* the list as it is by then, or at the end
RECURSIVE CloseOpenIfs(_, _)
CloseOpenIfs(fixed_lines, if_stack) ==
  IF if_stack = <<>> THEN fixed_lines
  ELSE LET found == {i \in (Head(if_stack) + 1)..Len(fixed_lines) :
                       Strip(fixed_lines[i]) # <<>>}
           closed == IF found = {} THEN Append(fixed_lines, <<"e","n","d","i","f">>)
                     ELSE InsertAt(fixed_lines, SetMin(found), <<"e","n","d","i","f">>)
       IN  CloseOpenIfs(closed, Tail(if_stack))

\* _validate_if_structure (its third branch, the second test for 'if ', is
\* never taken)
ValidateIfStructure(code) ==
  LET ls == CodeLines(code)
  IN  Join(CloseOpenIfs(ls, IfStack(ls, Len(ls))), <<NL>>)

ForbiddenIds ==
  << <<"e","n","d">>, <<"c","l","i","c","k">>, <<"c","l","a","s","s">>, <<"s","t","y","l","e">>, <<"s","u","b","g","r","a","p","h">>, <<"g","r","a","p","h">>, <<"f","l","o","w","c","h","a","r","t">> >>

ColonKeywords == << <<"i","f">>, <<"e","l","s","e">>, <<"e","n","d","i","f">>, <<"s","t","a","r","t">>, <<"s","t","o","p">> >>

\* re.match(r'^\s*:kw\b', line)
ColonMatch(line, kw) ==
  LET s == LStrip(line)
  IN  /\ At(s, 1, <<":">> \o kw)
      /\ (Len(s) = Len(kw) + 1 \/ ~IsWord(s[Len(kw) + 2]))

\* the first pattern of the list that matches the line; 0 when none does
FirstColonMatch(line) ==
  LET hits == {k \in 1..Len(ColonKeywords) : ColonMatch(line, ColonKeywords[k])}
  IN  IF hits = {} THEN 0 ELSE SetMin(hits)

\* the first forbidden identifier of the list the line uses; 0 when it uses none
FirstForbidden(line) ==
  LET hits == {k \in 1..Len(ForbiddenIds) :
                 \/ Contains(line, <<" ","a","s"," ">> \o ForbiddenIds[k])
                 \/ Contains(line, <<" ">> \o ForbiddenIds[k] \o <<" ">>)}
  IN  IF hits = {} THEN 0 ELSE SetMin(hits)

\* the concatenation of a list of lists
RECURSIVE Flatten(_)
Flatten(ss) == IF ss = <<>> THEN <<>> ELSE Head(ss) \o Flatten(Tail(ss))

\* endif_count after the loop of lines 147-152
EndifCount(ls) == Cardinality({i \in 1..Len(ls) : IsEndifLine(ls[i])})

\* a count that takes the order of the lines into account, the openers still
\* open after the scan and one opener for every 'endif' line: what C23 would not
\* survive
IfCountNested(ls) == Len(IfStack(ls, Len(ls))) + EndifCount(ls)

\* if_count after the loop of lines 147-152
IfCount(ls) == Cardinality({i \in 1..Len(ls) : IsIfLine(ls[i])})

\* validate_plantuml_syntax: the list of errors (is_valid is errors = [])
ValidateErrors(code) ==
  IF code = <<>> THEN << <<"empty code">> >>
  ELSE
    LET ls == CodeLines(code)
        ForbiddenOf(line) ==
          IF FirstForbidden(line) = 0 THEN <<>>
          ELSE << <<"forbidden id">> \o ForbiddenIds[FirstForbidden(line)] >>
        ColonOf(line) ==
          IF FirstColonMatch(line) = 0 THEN <<>>
          ELSE << <<"colon before">> \o ColonKeywords[FirstColonMatch(line)] >>
    IN  (IF \E i \in 1..Len(ls) : Contains(ls[i], <<"@","s","t","a","r","t","u","m","l">>) THEN <<>>
         ELSE << <<"no @startuml">> >>)
        \o (IF \E i \in 1..Len(ls) : Contains(ls[i], <<"@","e","n","d","u","m","l">>) THEN <<>>
            ELSE << <<"no @enduml">> >>)
        \o (IF IfCount(ls) # EndifCount(ls)
            THEN << <<"if/endif mismatch", ToString(IfCount(ls)),
                      ToString(EndifCount(ls))>> >>
            ELSE <<>>)
        \o Flatten([i \in 1..Len(ls) |-> ForbiddenOf(ls[i])])
        \o Flatten([i \in 1..Len(ls) |-> ColonOf(ls[i])])
        \o (IF Contains(code, <<"!","t","h","m","e">>) THEN << <<"!thme for !theme">> >>
            ELSE <<>>)

\* a substitution that does not put group 1 back: what C16 would not survive
StripColonAndIndent(line, kw) ==
  IF ColonMatch(line, kw) THEN Tail(LStrip(line)) ELSE line

\* re.sub(r'^(\s*):kw\b', r'\1kw', line)
StripColon(line, kw) ==
  IF ColonMatch(line, kw)
  THEN LET indent == Len(line) - Len(LStrip(line))
       IN  SubSeq(line, 1, indent) \o SubSeq(line, indent + 2, Len(line))
  ELSE line

\* one pass of the loop over patterns_to_fix: <<the code, the entries added>>
ColonPass(code, kw) ==
  LET ls == CodeLines(code)
      EntryOf(line) ==
        IF StripColon(line, kw) # line
        THEN << <<"colon removed">> \o Strip(line) >>
        ELSE <<>>
  IN  << Join([i \in 1..Len(ls) |-> StripColon(ls[i], kw)], <<NL>>),
         Flatten([i \in 1..Len(ls) |-> EntryOf(ls[i])]) >>

\* the loop over patterns_to_fix, patterns k..5
RECURSIVE ColonPasses(_, _)
ColonPasses(code, k) ==
  IF k > Len(ColonKeywords) THEN <<code, <<>>>>
  ELSE LET one == ColonPass(code, ColonKeywords[k])
           rest == ColonPasses(one[1], k + 1)
       IN  <<rest[1], one[2] \o rest[2]>>

\* line.strip().startswith('if ') and ' then' not in line
LacksThen(line) == IsIfLine(line) /\ ~Contains(line, <<" ","t","h","e","n">>)

\* step 3 of auto_fix_plantuml: <<the code, the entries added>>
ThenPass(code) ==
  LET ls == CodeLines(code)
      EntryOf(line) ==
        IF LacksThen(line) THEN << <<"then added">> \o Strip(line) >>
        ELSE <<>>
  IN  << Join([i \in 1..Len(ls) |->
                 IF LacksThen(ls[i]) THEN RStrip(ls[i]) \o <<" ","t","h","e","n">>
                 ELSE ls[i]], <<NL>>),
         Flatten([i \in 1..Len(ls) |-> EntryOf(ls[i])]) >>

\* the entry of line 248: ', '.join(remaining_errors) after its heading
RECURSIVE JoinErrors(_)
JoinErrors(errors) ==
  IF Len(errors) = 1 THEN errors[1]
  ELSE errors[1] \o <<", ">> \o JoinErrors(Tail(errors))

RemainingEntry(errors) == <<"remaining errors">> \o JoinErrors(errors)

\* a call that goes on to the repairs whatever the validity test says: what C27
\* would not survive
FixCallUngated ==
  /\ fn = AUTOFIX /\ pc = "call"
  /\ fixes_applied' = <<>>
  /\ fixed_code' = arg
  /\ ret' = ret
  /\ pc' = "typo"
  /\ UNCHANGED <<fn, arg, lines, nodes, actors, usecases, connections, source_id,
                 todo, plantuml_lines, history,
                 plantuml_code>>

\* lines 197-203: the validity test that gates the repairs
FixCall ==
  /\ fn = AUTOFIX /\ pc = "call"
  /\ fixes_applied' = <<>>
  /\ fixed_code' = arg
  /\ IF ValidateErrors(arg) = <<>>
     THEN /\ ret' = [code |-> arg, fixes |-> <<>>]
          /\ pc' = "done"
     ELSE /\ ret' = ret
          /\ pc' = "typo"
  /\ UNCHANGED <<fn, arg, lines, nodes, actors, usecases, connections, source_id,
                 todo, plantuml_lines, history,
                 plantuml_code>>

\* lines 207-210
FixTypo ==
  /\ fn = AUTOFIX /\ pc = "typo"
  /\ IF Contains(fixed_code, <<"!","t","h","m","e">>)
     THEN /\ fixed_code' = Replace(fixed_code, <<"!","t","h","m","e">>, <<"!","t","h","e","m","e">>)
          /\ fixes_applied' = Append(fixes_applied, <<"fixed !thme">>)
     ELSE UNCHANGED <<fixed_code, fixes_applied>>
  /\ pc' = "colon"
  /\ UNCHANGED <<fn, arg, lines, nodes, actors, usecases, connections, source_id,
                 todo, plantuml_lines, ret, history,
                 plantuml_code>>

\* the colons stripped after the search for 'if ' lines without 'then', which is
\* not made again: what C26 would not survive
FixColonAfterThen ==
  /\ fn = AUTOFIX /\ pc = "colon"
  /\ fixed_code' = ColonPasses(ThenPass(fixed_code)[1], 1)[1]
  /\ fixes_applied' = fixes_applied \o ThenPass(fixed_code)[2]
                        \o ColonPasses(ThenPass(fixed_code)[1], 1)[2]
  /\ pc' = "balance"
  /\ UNCHANGED <<fn, arg, lines, nodes, actors, usecases, connections, source_id,
                 todo, plantuml_lines, ret, history,
                 plantuml_code>>

\* lines 212-228
FixColon ==
  /\ fn = AUTOFIX /\ pc = "colon"
  /\ fixed_code' = ColonPasses(fixed_code, 1)[1]
  /\ fixes_applied' = fixes_applied \o ColonPasses(fixed_code, 1)[2]
  /\ pc' = "then"
  /\ UNCHANGED <<fn, arg, lines, nodes, actors, usecases, connections, source_id,
                 todo, plantuml_lines, ret, history,
                 plantuml_code>>

\* lines 230-239
FixThen ==
  /\ fn = AUTOFIX /\ pc = "then"
  /\ fixed_code' = ThenPass(fixed_code)[1]
  /\ fixes_applied' = fixes_applied \o ThenPass(fixed_code)[2]
  /\ pc' = "balance"
  /\ UNCHANGED <<fn, arg, lines, nodes, actors, usecases, connections, source_id,
                 todo, plantuml_lines, ret, history,
                 plantuml_code>>

\* lines 241-242
FixBalance ==
  /\ fn = AUTOFIX /\ pc = "balance"
  /\ fixed_code' = ValidateIfStructure(fixed_code)
  /\ pc' = "recheck"
  /\ UNCHANGED <<fn, arg, lines, nodes, actors, usecases, connections, source_id,
                 todo, plantuml_lines, fixes_applied, ret, history,
                 plantuml_code>>

\* a second validation that is given the input text again: what C30 would not
\* survive
FixRecheckOfInput ==
  /\ fn = AUTOFIX /\ pc = "recheck"
  /\ fixes_applied' =
       IF ValidateErrors(arg) # <<>>
       THEN Append(fixes_applied, RemainingEntry(ValidateErrors(arg)))
       ELSE fixes_applied
  /\ ret' = [code |-> fixed_code, fixes |-> fixes_applied']
  /\ pc' = "done"
  /\ UNCHANGED <<fn, arg, lines, nodes, actors, usecases, connections, source_id,
                 todo, plantuml_lines, fixed_code, history,
                 plantuml_code>>

\* lines 244-250
FixRecheck ==
  /\ fn = AUTOFIX /\ pc = "recheck"
  /\ fixes_applied' =
       IF ValidateErrors(fixed_code) # <<>>
       THEN Append(fixes_applied, RemainingEntry(ValidateErrors(fixed_code)))
       ELSE fixes_applied
  /\ ret' = [code |-> fixed_code, fixes |-> fixes_applied']
  /\ pc' = "done"
  /\ UNCHANGED <<fn, arg, lines, nodes, actors, usecases, connections, source_id,
                 todo, plantuml_lines, fixed_code, history,
                 plantuml_code>>

\* the caller gives the fixed text it got back to auto_fix_plantuml again
FixAgain ==
  /\ fn = AUTOFIX /\ pc = "done" /\ Len(history) + 1 < MaxCalls
  /\ history' = Append(history, [arg |-> arg, ret |-> ret])
  /\ UNCHANGED plantuml_code
  /\ arg' = ret.code
  /\ pc' = "call"
  /\ fixed_code' = <<>>
  /\ fixes_applied' = <<>>
  /\ ret' = NoValue
  /\ UNCHANGED <<fn, lines, nodes, actors, usecases, connections, source_id,
                 todo, plantuml_lines>>

\* the lines between the markers of the diagram texts the engine is given
FixBodyLines ==
  { <<"i","f"," ","(","x",")"," ","t","h","e","n">>,
    <<"e","n","d","i","f">>,
    <<":","a",";">>,
    <<>>,
    <<"!","t","h","m","e"," ","p","l","a","i","n">>,
    <<" "," ",":","i","f"," ","(","x",")">>,
    <<"i","f"," ","(","x",")">>,
    <<":","s","t","o","p">>,
    <<"x"," ","a","s"," ","e","n","d">> }

\* the diagram texts: a body of 1..MaxFixLines lines, with both markers, with
\* '@startuml' alone, or with neither
FixArgs ==
  LET bodies == TextsOf(FixBodyLines, MaxFixLines)
  IN  {<<"@","s","t","a","r","t","u","m","l">> \o <<NL>> \o b \o <<NL>> \o <<"@","e","n","d","u","m","l">> : b \in bodies}
        \cup {<<"@","s","t","a","r","t","u","m","l">> \o <<NL>> \o b : b \in bodies}
        \cup bodies
        \cup {<<>>}

InitFix == fn = AUTOFIX /\ arg \in FixArgs /\ Fresh

NextFix ==
  \/ FixCall
  \/ FixTypo
  \/ FixColon
  \/ FixThen
  \/ FixBalance
  \/ FixRecheck
  \/ FixAgain

SpecFix == InitFix /\ [][NextFix]_vars

\* both translators, one call of either
InitTranslate == InitBPMN \/ InitUC

NextTranslate == NextBPMN \/ NextUC

SpecTranslate == InitTranslate /\ [][NextTranslate]_vars

-----------------------------------------------------------------------------
(* The claims *)

\* C1: generateBPMNDiagram called with an empty dict and called with
\* {'bpmn_mermaid': ''} both return the same minimal skeleton: header and footer
\* lines only, no '|' line, no start-marker line, no '--> (*)' line.
C1_SkeletonFallback ==
  ( /\ fn = BPMN /\ pc = "done"
    /\ (arg.keys = {} \/ (arg.keys = {"bpmn_mermaid"} /\ arg.text = <<>>)) )
  => ret = BPMNSkeleton

\* a text in which every 'if ' line is matched by a later 'endif' line: the scan
\* ends with no conditional open
NoUnclosedConditional(code) ==
  IfStack(CodeLines(code), Len(CodeLines(code))) = <<>>

\* C2: for every diagram text t with no unclosed conditional, auto_fix_plantuml
\* applied to the fixed text returned by auto_fix_plantuml(t) returns an empty
\* diagnostics list, also when t lacks '@startuml' or '@enduml'.
C2_RepairIdempotent ==
  ( /\ fn = AUTOFIX /\ pc = "done" /\ Len(history) = 1
    /\ NoUnclosedConditional(history[1].arg) )
  => ret.fixes = <<>>

\* C3: generateBPMNDiagram never raises, whatever the lines of the notation text;
\* a first '-->' line whose source part has no leading identifier and whose
\* target part has one still yields diagram text.
C3_BPMNNeverRaises == fn = BPMN => pc # "raised"

\* C4: generateUseCaseDiagram never raises; a relationship line whose source
\* part matches neither ID[text] nor ID((text)) and whose target part matches one
\* of them yields output, also when it is the first relationship line.
C4_UCNeverRaises == fn = UC => pc # "raised"

\* the source part of a relationship line of the notation, as the function named
\* f splits it; <<>> for a line that is no relationship line
SourcePartOf(f, raw) ==
  LET line == Strip(raw)
  IN  IF line = <<>> \/ StartsWith(line, <<"%","%">>) THEN <<>>
      ELSE IF Contains(line, Arrow) THEN Strip(Split(line, Arrow)[1])
      ELSE IF f = UC /\ Contains(line, DashedArrow)
           THEN Strip(Split(line, DashedArrow)[1])
      ELSE <<>>

\* a relationship line whose source part yields no identifier (process flow) or
\* matches neither bracket form (actor interaction)
SourceMalformed(f, raw) ==
  LET line == Strip(raw)
      part == SourcePartOf(f, raw)
  IN  /\ Contains(line, Arrow) \/ (f = UC /\ Contains(line, DashedArrow))
      /\ line # <<>> /\ ~StartsWith(line, <<"%","%">>)
      /\ IF f = BPMN THEN WordPrefix(part) = <<>>
         ELSE NodeMatch(part, <<"[">>, <<"]">>) = <<>> /\ NodeMatch(part, <<"(","(">>, <<")",")">>) = <<>>

\* C5: in both translators a notation line whose source part yields no
\* identifier, or matches neither bracket form, adds no edge to the edge list,
\* whatever lines were parsed before it.
C5_MalformedLineAddsNoEdge ==
  [][ ( /\ pc = "parse" /\ lines # <<>>
        /\ SourceMalformed(fn, Head(lines)) )
      => connections' = connections ]_vars

\* the output lines the claim gives a list of edges: none for an edge one of
\* whose ends has no display text, the lines of the edge otherwise
RECURSIVE LinesOfRegistered(_, _)
LinesOfRegistered(conns, d) ==
  IF conns = <<>> THEN <<>>
  ELSE LET c == Head(conns)
       IN  (IF DictHas(d, c.source) /\ DictHas(d, c.target)
            THEN EdgeLines(DictGet(d, c.source), DictGet(d, c.target), c.label)
            ELSE <<>>)
           \o LinesOfRegistered(Tail(conns), d)

\* the connections the output loop has visited
Visited == SubSeq(connections, 1, Len(connections) - Len(todo))

\* C6: in generateBPMNDiagram an edge whose source or target identifier was
\* never registered with a display text contributes zero output lines, and the
\* other edges are emitted unchanged: after the start line the output holds the
\* lines of the edges with two registered ends, in order, and nothing else.
C6_DanglingEdgeSkipped ==
  /\ ( fn = BPMN /\ pc = "emit" /\ nodes # <<>> )
     => plantuml_lines =
          BPMNHeader \o << <<"|">>, <<"(","*",")"," ","-","-",">"," ","\"">> \o nodes[1].text \o <<"\"">> >>
            \o LinesOfRegistered(Visited, nodes)
  /\ ( fn = BPMN /\ pc = "done" /\ "bpmn_mermaid" \in arg.keys /\ nodes # <<>> )
     => ret = Join(BPMNHeader
                     \o << <<"|">>, <<"(","*",")"," ","-","-",">"," ","\"">> \o nodes[1].text \o <<"\"">> >>
                     \o LinesOfRegistered(connections, nodes)
                     \o << <<"-","-",">"," ","(","*",")">>, <<"@","e","n","d","u","m","l">> >>, <<NL>>)

\* a finished call with an edge that has an unregistered end and an edge that
\* has none
C6_Witness ==
  /\ fn = BPMN /\ pc = "done"
  /\ \E i \in 1..Len(connections) :
       ~DictHas(nodes, connections[i].target) \/ ~DictHas(nodes, connections[i].source)
  /\ \E j \in 1..Len(connections) :
       DictHas(nodes, connections[j].target) /\ DictHas(nodes, connections[j].source)

\* the text contains '?' or, in any mix of small and capital letters, the
\* Cyrillic substrings ka-a-ka or el-i
HasConditionMarker(text) ==
  \/ \E i \in 1..Len(text) : text[i] = "?"
  \/ \E i \in 1..(Len(text) - 2) :
       /\ text[i] \in {cy_k, CY_K}
       /\ text[i + 1] \in {cy_a, CY_A}
       /\ text[i + 2] \in {cy_k, CY_K}
  \/ \E i \in 1..(Len(text) - 1) :
       text[i] \in {cy_l, CY_L} /\ text[i + 1] \in {cy_i, CY_I}

\* C7: every emitted process-flow edge is rendered as an 'if "<source text>"
\* then' line followed by an indented transition line exactly when the source
\* node's display text contains '?' or, case-insensitively, one of the two
\* Cyrillic substrings; otherwise as exactly one plain transition line.
C7_ConditionalDetection ==
  [][ ( /\ fn = BPMN /\ pc = "emit" /\ todo # <<>>
        /\ DictHas(nodes, Head(todo).source)
        /\ DictHas(nodes, Head(todo).target) )
      => LET text == DictGet(nodes, Head(todo).source)
             added == SubSeq(plantuml_lines', Len(plantuml_lines) + 1,
                             Len(plantuml_lines'))
         IN  IF HasConditionMarker(text)
             THEN /\ Len(added) = 2
                  /\ added[1] = <<"i","f"," ","\"">> \o text \o <<"\""," ","t","h","e","n">>
                  /\ StartsWith(added[2], <<" "," ","-","-",">">>)
             ELSE /\ Len(added) = 1
                  /\ StartsWith(added[1], <<"-","-",">">>) ]_vars

\* a finished call that wrote a conditional whose source text has a capital
\* Cyrillic letter, and a plain transition
C7_Witness ==
  /\ fn = BPMN /\ pc = "done"
  /\ \E i \in 1..Len(plantuml_lines) :
       /\ StartsWith(plantuml_lines[i], <<"i","f"," ","\"">>)
       /\ \E k \in 1..Len(plantuml_lines[i]) :
            plantuml_lines[i][k] \in {CY_K, CY_I}
  /\ \E j \in 1..Len(plantuml_lines) : StartsWith(plantuml_lines[j], <<"-","-",">"," ","\"">>)

\* the identifiers and the texts of the single lines of C8
C8_Ids == { <<"A">>, <<"B">> }

C8_Texts == { <<"u">>, <<"l">>, <<"u"," ","(","x",")">> }

\* C8: for a single notation line 'X[t1] --> Y((t2))' generateUseCaseDiagram
\* declares X as an actor with text t1, declares Y as a use case with text t2,
\* and emits exactly one relationship line 'X --> Y', solid and without label.
C8_ActorUseCaseClassification ==
  \A X \in C8_Ids, Y \in C8_Ids, t1 \in C8_Texts, t2 \in C8_Texts :
    ( /\ fn = UC /\ pc \in {"done", "raised"}
      /\ arg.keys = {"usecase_mermaid"}
      /\ arg.text = X \o <<"[">> \o t1 \o <<"]"," ","-","-",">"," ">> \o Y \o <<"(","(">> \o t2 \o <<")",")">> )
    => /\ pc = "done"
       /\ ret = Join(UCHeader
                       \o << <<"a","c","t","o","r"," ","\"">> \o t1 \o <<"\""," ","a","s"," ">> \o X,
                             <<>>,
                             <<"u","s","e","c","a","s","e"," ","\"">> \o t2 \o <<"\""," ","a","s"," ">> \o Y,
                             <<>>,
                             X \o <<" ","-","-",">"," ">> \o Y,
                             <<"@","e","n","d","u","m","l">> >>, <<NL>>)

\* C9: after parsing, every identifier is in exactly one of the actor registry
\* and the use-case registry: an identifier seen in both forms is only in the
\* registry of its last sighting.
C9_RegistryExclusive ==
  fn = UC =>
    \A i \in 1..Len(actors), j \in 1..Len(usecases) : actors[i].id # usecases[j].id

\* the lines of a text that are no 'endif' lines
OtherLines(code) == SelectSeq(CodeLines(code), LAMBDA l : ~IsEndifLine(l))

\* the text has '@startuml', has no '@enduml', and exactly one 'if ... then' line
\* that is never closed
OneUnclosedIf(code) ==
  LET ls == CodeLines(code)
      open == IfStack(ls, Len(ls))
  IN  /\ \E i \in 1..Len(ls) : Contains(ls[i], <<"@","s","t","a","r","t","u","m","l">>)
      /\ \A i \in 1..Len(ls) : ~Contains(ls[i], <<"@","e","n","d","u","m","l">>)
      /\ Len(open) = 1
      /\ Contains(ls[open[1]], <<" ","t","h","e","n">>)

\* what C10 says of the call: one more 'endif' line, the other lines as they
\* were, and both errors reported for the original text
BalanceRepaired ==
  /\ EndifCount(CodeLines(ret.code)) = EndifCount(CodeLines(arg)) + 1
  /\ OtherLines(ret.code) = OtherLines(arg)
  /\ \E i \in 1..Len(ValidateErrors(arg)) :
       ValidateErrors(arg)[i] = <<"no @enduml">>
  /\ \E i \in 1..Len(ValidateErrors(arg)) :
       ValidateErrors(arg)[i][1] = "if/endif mismatch"

\* C10 as first stated: for a text with '@startuml', exactly one unclosed
\* 'if ... then' line and no '@enduml', auto_fix_plantuml returns a text with
\* exactly one more 'endif' line and the same other lines in the same order, and
\* validate_plantuml_syntax on the original text reports the missing '@enduml'
\* and the if/endif mismatch.
C10_BalanceRepairAsStated ==
  ( fn = AUTOFIX /\ pc = "done" /\ history = <<>> /\ OneUnclosedIf(arg) )
  => BalanceRepaired

\* the text has nothing else for auto_fix_plantuml to repair, and each of its
\* 'endif' lines closes an 'if ' line before it
NoOtherDefect(code) ==
  LET ls == CodeLines(code)
  IN  /\ ~Contains(code, <<"!","t","h","m","e">>)
      /\ \A i \in 1..Len(ls) : FirstColonMatch(ls[i]) = 0 /\ ~LacksThen(ls[i])
      /\ \A i \in 1..Len(ls) :
           IsEndifLine(ls[i]) => IfStack(ls, i - 1) # <<>>

\* C10: for a text with '@startuml', no '@enduml', exactly one unclosed
\* 'if ... then' line, no '!thme', no colon before a keyword, no 'if ' line
\* without ' then' and no 'endif' line without an open 'if ' line before it,
\* auto_fix_plantuml returns a text with exactly one more 'endif' line and the
\* same other lines in the same order, and validate_plantuml_syntax on the
\* original text reports the missing '@enduml' and the if/endif mismatch.
C10_BalanceRepair ==
  ( /\ fn = AUTOFIX /\ pc = "done" /\ history = <<>>
    /\ OneUnclosedIf(arg) /\ NoOtherDefect(arg) )
  => BalanceRepaired

\* a finished first call on such a text, whose 'if ' line is its last line
C10_Witness ==
  /\ fn = AUTOFIX /\ pc = "done" /\ history = <<>>
  /\ OneUnclosedIf(arg) /\ NoOtherDefect(arg)
  /\ IsIfLine(CodeLines(arg)[Len(CodeLines(arg))])
  /\ ret.code # arg

\* the entries of a diagnostics list whose first string is tag
EntriesNamed(fixes, tag) == SelectSeq(fixes, LAMBDA e : e[1] = tag)

\* C11: for every text containing '!thme', auto_fix_plantuml returns a text in
\* which no '!thme' remains, every occurrence having become '!theme', and
\* diagnostics with exactly one entry naming the typo fix.
C11_TypoFix ==
  ( fn = AUTOFIX /\ pc = "done" /\ Contains(arg, <<"!","t","h","m","e">>) )
  => /\ ~Contains(ret.code, <<"!","t","h","m","e">>)
     /\ Cardinality(Occurrences(ret.code, <<"!","t","h","e","m","e">>))
          = Cardinality(Occurrences(arg, <<"!","t","h","e","m","e">>))
              + Cardinality(Occurrences(arg, <<"!","t","h","m","e">>))
     /\ Len(EntriesNamed(ret.fixes, "fixed !thme")) = 1

\* a finished call on a text that has '!thme' twice
C11_Witness ==
  /\ fn = AUTOFIX /\ pc = "done"
  /\ Cardinality(Occurrences(arg, <<"!","t","h","m","e">>)) = 2
  /\ Cardinality(Occurrences(ret.code, <<"!","t","h","e","m","e">>)) = 2

\* C12: for every input text, if auto_fix_plantuml returns an empty diagnostics
\* list then the returned text is the input text; an inserted 'endif' line
\* always comes with at least one diagnostics entry.
C12_EmptyDiagnosticsNoChange ==
  ( fn = AUTOFIX /\ pc = "done" /\ ret.fixes = <<>> ) => ret.code = arg

\* the colons auto_fix_plantuml has to strip from a text, the 'then' it has to
\* append and the 'endif' lines the call inserted
ColonLinesOf(code) ==
  Cardinality({i \in 1..Len(CodeLines(code)) :
                 FirstColonMatch(CodeLines(code)[i]) # 0})

ThenLinesOf(code) ==
  Cardinality({i \in 1..Len(CodeLines(code)) :
                 LacksThen(ColonPasses(CodeLines(code)[i], 1)[1])})

InsertedEndifs == Len(CodeLines(ret.code)) - Len(CodeLines(arg))

\* C13: for every input text the diagnostics of auto_fix_plantuml hold one
\* entry for each replaced '!thme', each stripped colon, each appended 'then'
\* and each inserted 'endif' (stated of the calls in which the repairs run: a
\* text that passes validation is returned as it is).
C13_OneDiagnosticPerRepair ==
  ( fn = AUTOFIX /\ pc = "done" /\ ValidateErrors(arg) # <<>> )
  => /\ Len(EntriesNamed(ret.fixes, "fixed !thme"))
          = Cardinality(Occurrences(arg, <<"!","t","h","m","e">>))
     /\ Len(EntriesNamed(ret.fixes, "colon removed")) = ColonLinesOf(arg)
     /\ Len(EntriesNamed(ret.fixes, "then added")) = ThenLinesOf(arg)
     /\ Len(ret.fixes) - Len(EntriesNamed(ret.fixes, "remaining errors"))
          = Cardinality(Occurrences(arg, <<"!","t","h","m","e">>)) + ColonLinesOf(arg)
              + ThenLinesOf(arg) + InsertedEndifs

-----------------------------------------------------------------------------
(* Several calls in one process.  Python gives every call a new frame, in    *)
(* which a local that was not yet assigned is unbound; the tables of the     *)
(* call before are kept in the state until the code of the next call assigns *)
(* them, so that a table the code forgot to empty would show.                *)

VALIDATE == "validate_plantuml_syntax"

\* validate_plantuml_syntax(arg): (is_valid, errors)
ValidateCall ==
  /\ fn = VALIDATE /\ pc = "call"
  /\ ret' = [valid |-> ValidateErrors(arg) = <<>>, errors |-> ValidateErrors(arg)]
  /\ pc' = "done"
  /\ UNCHANGED <<fn, arg, lines, nodes, actors, usecases, connections, source_id,
                 todo, plantuml_lines, fixed_code, fixes_applied, history,
                 plantuml_code>>

\* the calls a process may make
CallInputs ==
  { [fn |-> BPMN, arg |-> [keys |-> k, text |-> t]] :
      k \in {{"bpmn_mermaid"}},
      t \in { <<"A"," ","-","-",">"," ","B">>, <<"A","[","a","]"," ","-","-",">"," ","B","[","b","]">>, <<"-","-",">"," ","B","[","b","]">> } }
  \cup { [fn |-> BPMN, arg |-> [keys |-> {}, text |-> <<>>]] }
  \cup { [fn |-> UC, arg |-> [keys |-> {"usecase_mermaid"}, text |-> t]] :
           t \in { <<"A","[","u","]"," ","-","-",">"," ","B","(","(","l",")",")">>, <<"x"," ","-","-",">"," ","B","(","(","l",")",")">> } }
  \cup { [fn |-> AUTOFIX, arg |-> t] :
           t \in { <<"@","s","t","a","r","t","u","m","l">> \o <<NL>> \o <<"!","t","h","m","e"," ","p","l","a","i","n">>,
                   <<" "," ",":","i","f"," ","(","x",")">> \o <<NL>> \o <<"@","e","n","d","u","m","l">> } }
  \cup { [fn |-> VALIDATE, arg |-> t] :
           t \in { <<"@","s","t","a","r","t","u","m","l">> \o <<NL>> \o <<"i","f"," ","(","x",")">>, <<>> } }

\* the call has ended and the process makes another
NewCall ==
  /\ pc \in {"done", "raised"} /\ Len(history) + 1 < MaxSequence
  /\ history' = Append(history, [fn |-> fn, arg |-> arg, pc |-> pc, ret |-> ret])
  /\ UNCHANGED plantuml_code
  /\ \E c \in CallInputs : fn' = c.fn /\ arg' = c.arg
  /\ pc' = "call"
  /\ ret' = NoValue
  /\ source_id' = Unbound
  /\ UNCHANGED <<lines, nodes, actors, usecases, connections, todo,
                 plantuml_lines, fixed_code, fixes_applied>>

InitCalls == (\E c \in CallInputs : fn = c.fn /\ arg = c.arg) /\ Fresh

NextCalls ==
  \/ NextBPMN
  \/ NextUC
  \/ FixCall
  \/ FixTypo
  \/ FixColon
  \/ FixThen
  \/ FixBalance
  \/ FixRecheck
  \/ ValidateCall
  \/ NewCall

SpecCalls == InitCalls /\ [][NextCalls]_vars

\* the calls that have ended: those of history and, once it has ended, this one
EndedCalls ==
  IF pc \in {"done", "raised"}
  THEN Append(history, [fn |-> fn, arg |-> arg, pc |-> pc, ret |-> ret])
  ELSE history

\* C14: in any sequence of calls of the four functions, two calls of the same
\* function with the same input end the same way and return the same value,
\* whatever calls were made in between.
C14_CallsAreIndependent ==
  \A i \in 1..Len(EndedCalls), j \in 1..Len(EndedCalls) :
    ( EndedCalls[i].fn = EndedCalls[j].fn /\ EndedCalls[i].arg = EndedCalls[j].arg )
    => /\ EndedCalls[i].pc = EndedCalls[j].pc
       /\ EndedCalls[i].ret = EndedCalls[j].ret

\* the same process-flow text translated twice, with a call between the two that
\* registered display texts for its identifiers
C14_Witness ==
  /\ Len(EndedCalls) = 3
  /\ EndedCalls[1].fn = BPMN /\ EndedCalls[3] = EndedCalls[1]
  /\ EndedCalls[1].arg.text = <<"A"," ","-","-",">"," ","B">>
  /\ EndedCalls[2].fn = BPMN /\ EndedCalls[2].arg.text = <<"A","[","a","]"," ","-","-",">"," ","B","[","b","]">>

\* a line of the form 'if (...)' that does not contain 'then'
IfWithoutThen(line) ==
  StartsWith(Strip(line), <<"i","f"," ","(">>) /\ ~Contains(line, <<"t","h","e","n">>)

\* C15: for every input text, each line of the form 'if (...)' that does not
\* contain 'then' has ' then' appended at its end in the text auto_fix_plantuml
\* returns, also when the text has both markers, as many 'if' as 'endif' lines
\* and no other defect.
C15_ThenAppended ==
  ( fn = AUTOFIX /\ pc = "done" )
  => \A i \in 1..Len(CodeLines(arg)) :
       IfWithoutThen(CodeLines(arg)[i])
       => \E j \in 1..Len(CodeLines(ret.code)) :
            CodeLines(ret.code)[j] = RStrip(CodeLines(arg)[i]) \o <<" ","t","h","e","n">>

\* a line that begins, after optional whitespace, with a colon and one of the
\* five keywords, the keyword ending at a word boundary
HasSpuriousColon(line) ==
  \E k \in { <<"i","f">>, <<"e","l","s","e">>, <<"e","n","d","i","f">>, <<"s","t","a","r","t">>, <<"s","t","o","p">> } :
    LET s == LStrip(line)
    IN  /\ StartsWith(s, <<":">> \o k)
        /\ (Len(s) > Len(k) + 1 => ~IsWord(s[Len(k) + 2]))

\* the line without the colon that follows its leading whitespace
WithoutColon(line) ==
  LET indent == Len(line) - Len(LStrip(line))
  IN  SubSeq(line, 1, indent) \o SubSeq(line, indent + 2, Len(line))

\* C16 as first stated: for every input text, each line that begins with ':if',
\* ':else', ':endif', ':start' or ':stop' appears in the text auto_fix_plantuml
\* returns with exactly that colon removed and its leading whitespace and the
\* rest of the line unchanged.
C16_ColonStripAsStated ==
  ( fn = AUTOFIX /\ pc = "done" )
  => \A i \in 1..Len(CodeLines(arg)) :
       HasSpuriousColon(CodeLines(arg)[i])
       => \E j \in 1..Len(CodeLines(ret.code)) :
            CodeLines(ret.code)[j] = WithoutColon(CodeLines(arg)[i])

\* C16: the colon-strip step of auto_fix_plantuml keeps the number of lines;
\* each line that begins, after optional whitespace, with ':if', ':else',
\* ':endif', ':start' or ':stop' leaves the step with exactly that colon removed
\* and its leading whitespace and the rest of the line unchanged, and every other
\* line leaves it unchanged.  (The later steps may still append ' then' to the
\* line or insert an 'endif' line next to it.)
C16_ColonStrip ==
  [][ ( fn = AUTOFIX /\ pc = "colon" )
      => /\ Len(CodeLines(fixed_code')) = Len(CodeLines(fixed_code))
         /\ \A i \in 1..Len(CodeLines(fixed_code)) :
              CodeLines(fixed_code')[i] =
                IF HasSpuriousColon(CodeLines(fixed_code)[i])
                THEN WithoutColon(CodeLines(fixed_code)[i])
                ELSE CodeLines(fixed_code)[i] ]_vars

\* a finished call on a text with an indented ':if' line and a line that has no
\* such colon, the first returned without the colon and with ' then'
C16_Witness ==
  /\ fn = AUTOFIX /\ pc = "done"
  /\ \E i \in 1..Len(CodeLines(arg)) :
       /\ HasSpuriousColon(CodeLines(arg)[i])
       /\ IsSpace(CodeLines(arg)[i][1])
       /\ \E j \in 1..Len(CodeLines(ret.code)) :
            CodeLines(ret.code)[j] = WithoutColon(CodeLines(arg)[i]) \o <<" ","t","h","e","n">>
  /\ \E i \in 1..Len(CodeLines(arg)) :
       CodeLines(arg)[i] = <<":","a",";">>

\* the position before which the 'endif' of the opener at position p belongs:
\* that of the first non-blank line after p, or one past the last line
ClosingPoint(ls, p) ==
  LET after == {k \in (p + 1)..Len(ls) : Strip(ls[k]) # <<>>}
  IN  IF after = {} THEN Len(ls) + 1 ELSE SetMin(after)

\* the lines with one 'endif' put at the closing point of every opener that is
\* left on the stack
ClosedAtClosingPoints(ls) ==
  LET open == IfStack(ls, Len(ls))
      Endifs(k) ==
        [n \in 1..Cardinality({q \in 1..Len(open) : ClosingPoint(ls, open[q]) = k})
           |-> <<"e","n","d","i","f">>]
  IN  Flatten([k \in 1..(Len(ls) + 1) |->
                 Endifs(k) \o (IF k <= Len(ls) THEN <<ls[k]>> ELSE <<>>)])

\* C17: for every text, with any number of conditional-open lines left on the
\* stack at the end of the scan, _validate_if_structure inserts for each of them
\* one 'endif' line immediately before the first non-blank line that follows the
\* opener, or at the very end when none follows; no 'endif' is put before its own
\* opener.
C17_BalanceInsertionPoint ==
  [][ ( fn = AUTOFIX /\ pc = "balance" )
      => CodeLines(fixed_code') = ClosedAtClosingPoints(CodeLines(fixed_code)) ]_vars

\* the keys of a dict, in its order
IdsOf(d) == [i \in 1..Len(d) |-> d[i].id]

IsPrefix(a, b) == Len(a) <= Len(b) /\ SubSeq(b, 1, Len(a)) = a

EndsWith(s, p) == Len(p) <= Len(s) /\ SubSeq(s, Len(s) - Len(p) + 1, Len(s)) = p

\* the declaration lines of a registry, in its order
Declarations(word, d) ==
  [i \in 1..Len(d) |-> word \o <<" ","\"">> \o d[i].text \o <<"\""," ","a","s"," ">> \o d[i].id]

\* C18: in every output of generateUseCaseDiagram with the notation key
\* present, the header is followed by the actor declarations in the order the
\* identifiers were first registered as actors (a parsing step never reorders a
\* registry or the edge list, it only adds at the end), one blank line, the
\* use-case declarations in first-registration order, one blank line, the
\* relationship lines in the order their notation lines appeared, and '@enduml'.
C18_OutputOrder ==
  [][ /\ ( fn = UC /\ pc = "parse" )
         => /\ IsPrefix(IdsOf(actors), IdsOf(actors'))
            /\ IsPrefix(IdsOf(usecases), IdsOf(usecases'))
            /\ IsPrefix(connections, connections')
            /\ Len(connections') <= Len(connections) + 1
      /\ ( fn = UC /\ pc' = "done" /\ "usecase_mermaid" \in arg.keys )
         => LET n == Len(UCHeader) + Len(actors) + Len(usecases) + 2
                out == plantuml_lines'
            IN  /\ ret' = Join(out, <<NL>>)
                /\ Len(out) = n + Len(connections) + 1
                /\ SubSeq(out, 1, n) =
                     UCHeader \o Declarations(<<"a","c","t","o","r">>, actors) \o << <<>> >>
                       \o Declarations(<<"u","s","e","c","a","s","e">>, usecases) \o << <<>> >>
                /\ \A i \in 1..Len(connections) :
                     /\ StartsWith(out[n + i], connections[i].source \o <<" ">>)
                     /\ EndsWith(out[n + i], <<" ">> \o connections[i].target)
                     /\ \/ Contains(out[n + i], <<" ","-","-",">"," ">>)
                        \/ Contains(out[n + i], <<" ",".","-",">"," ">>)
                /\ out[Len(out)] = <<"@","e","n","d","u","m","l">>
    ]_vars

\* a finished call in which an identifier was registered as an actor, then
\* another, then the first again with a new text
C18_Witness ==
  /\ fn = UC /\ pc = "done"
  /\ Len(actors) = 2 /\ usecases # <<>> /\ Len(connections) = 3
  /\ actors[1] = [id |-> <<"A">>, text |-> <<"k">>]

\* the target part of a relationship line of the actor-interaction notation,
\* without its label; <<>> for a line that is no relationship line
UCTargetPartOf(raw) ==
  LET line == Strip(raw)
      sep == IF Contains(line, Arrow) THEN Arrow ELSE DashedArrow
  IN  IF line = <<>> \/ StartsWith(line, <<"%","%">>) \/ ~Contains(line, sep) THEN <<>>
      ELSE WithoutLabel(Strip(Split(line, sep)[2]))

\* a relationship line whose target part matches neither ID[text] nor ID((text))
TargetUnmatched(raw) ==
  LET line == Strip(raw)
  IN  /\ line # <<>> /\ ~StartsWith(line, <<"%","%">>)
      /\ Contains(line, Arrow) \/ Contains(line, DashedArrow)
      /\ NodeMatch(UCTargetPartOf(raw), <<"[">>, <<"]">>) = <<>>
      /\ NodeMatch(UCTargetPartOf(raw), <<"(","(">>, <<")",")">>) = <<>>

\* the output declares the identifier as an actor or as a use case
DeclaredIn(out, id) ==
  \E i \in 1..Len(out) :
    /\ StartsWith(out[i], <<"a","c","t","o","r"," ","\"">>) \/ StartsWith(out[i], <<"u","s","e","c","a","s","e"," ","\"">>)
    /\ EndsWith(out[i], <<"\""," ","a","s"," ">> \o id)

\* C19: in every output of generateUseCaseDiagram each relationship line names
\* a source and a target that the same output declares as an actor or a use
\* case, and a notation line whose target part matches neither ID[text] nor
\* ID((text)) adds no relationship.
C19_EndpointsDeclared ==
  [][ /\ ( fn = UC /\ pc = "parse" /\ lines # <<>> /\ TargetUnmatched(Head(lines)) )
         => connections' = connections
      /\ ( fn = UC /\ pc' = "done" /\ "usecase_mermaid" \in arg.keys )
         => LET n == Len(UCHeader) + Len(actors) + Len(usecases) + 2
                out == plantuml_lines'
            IN  \A i \in (n + 1)..(Len(out) - 1) :
                  \E s \in {connections[c].source : c \in 1..Len(connections)},
                     t \in {connections[c].target : c \in 1..Len(connections)} :
                    /\ StartsWith(out[i], s \o <<" ">>)
                    /\ EndsWith(out[i], <<" ">> \o t)
                    /\ DeclaredIn(out, s)
                    /\ DeclaredIn(out, t)
    ]_vars

\* a finished call on a text with a line whose target matches neither form and
\* a line whose source was carried over from the line before it
C19_Witness ==
  /\ fn = UC /\ pc = "done" /\ "usecase_mermaid" \in arg.keys
  /\ \E i \in 1..Len(NotationLines(arg.text)) :
       TargetUnmatched(NotationLines(arg.text)[i])
  /\ \E i \in 1..Len(NotationLines(arg.text)) :
       /\ SourceMalformed(UC, NotationLines(arg.text)[i])
       /\ ~TargetUnmatched(NotationLines(arg.text)[i])
  /\ connections # <<>>

\* whether a part of a process-flow line has a [text] or a {text} body
HasBody(part) ==
  DelimitedGroup(part, "[", "]") # <<>> \/ DelimitedGroup(part, "{", "}") # <<>>

\* the identifier a process-flow line registers first: that of its source part
\* when the part has an identifier and a body, else that of its target part
FirstRegisteredBy(raw) ==
  LET parts == Split(Strip(raw), Arrow)
      source_part == Strip(parts[1])
  IN  IF WordPrefix(source_part) # <<>> /\ HasBody(source_part)
      THEN WordPrefix(source_part)
      ELSE WordPrefix(WithoutLabel(Strip(parts[2])))

\* the lines of an output that are start lines
StartLines(out) == {i \in 1..Len(out) : StartsWith(out[i], <<"(","*",")"," ","-","-",">">>)}

\* C20: whenever at least one node is registered, generateBPMNDiagram emits
\* exactly one start line '(*) --> "<text>"', right after the '|' line and before
\* all edge lines, with the display text of the identifier that was registered
\* first in source order (source part before target part within a line); when
\* no node is registered it emits no start line.
C20_StartMarker ==
  [][ /\ ( fn = BPMN /\ pc = "parse" /\ nodes # <<>> )
         => nodes'[1].id = nodes[1].id
      /\ ( fn = BPMN /\ pc = "parse" /\ nodes = <<>> /\ nodes' # <<>> )
         => nodes'[1].id = FirstRegisteredBy(Head(lines))
      /\ ( fn = BPMN /\ pc' = "done" /\ "bpmn_mermaid" \in arg.keys )
         => LET out == plantuml_lines'
                n == Len(BPMNHeader) + 1
            IN  /\ ret' = Join(out, <<NL>>)
                /\ out[n] = <<"|">>
                /\ IF nodes = <<>> THEN StartLines(out) = {}
                   ELSE /\ StartLines(out) = {n + 1}
                        /\ out[n + 1] = <<"(","*",")"," ","-","-",">"," ","\"">> \o nodes[1].text \o <<"\"">>
    ]_vars

\* a finished call that registered two nodes with different texts, the first of
\* them by the target part of a line whose source part has no body
C20_Witness ==
  /\ fn = BPMN /\ pc = "done"
  /\ Len(nodes) >= 2 /\ nodes[1].text # nodes[Len(nodes)].text
  /\ Contains(NotationLines(arg.text)[1], Arrow)
  /\ ~HasBody(Strip(Split(Strip(NotationLines(arg.text)[1]), Arrow)[1]))
  /\ StartLines(plantuml_lines) # {}

-----------------------------------------------------------------------------
(* Order of edges, texts of nodes *)

\* notation lines that repeat edges and show identifiers again, with another
\* body or with none
BPMNOrderLines ==
  { <<"A","[","a","]"," ","-","-",">"," ","B","[","b","]">>,
    <<" "," ","B","[","b","]"," ","-","-",">"," ","C","{","c","?","}">>,
    <<"C","{","c","?","}"," ","-","-",">","|","y","|"," ","A","[","a","]">>,
    <<"A"," ","-","-",">"," ","B">>,
    <<"[","a","]"," ","-","-",">"," ","C","[","d","]">>,
    <<"A","[">> \o <<CY_K, cy_a, cy_k>> \o <<"]"," ","-","-",">"," ","D">> }

BPMNOrderArgs ==
  { [keys |-> {"other"}, text |-> <<>>] }
    \cup { [keys |-> {"bpmn_mermaid"}, text |-> t] :
             t \in TextsOf(BPMNOrderLines, MaxLines) }

InitBPMNOrder == fn = BPMN /\ arg \in BPMNOrderArgs /\ Fresh

\* one call of generateBPMNDiagram on these lines
SpecBPMNOrder == InitBPMNOrder /\ [][NextBPMN]_vars

\* the edges a sequence of notation lines stands for, one for every line with an
\* identifier on both sides (the source side falling back on src, the source of
\* the line before), in the order of the lines and with every repetition
RECURSIVE C21_EdgesOf(_, _)
C21_EdgesOf(ls, src) ==
  IF ls = <<>> THEN <<>>
  ELSE LET line == Strip(Head(ls))
       IN  IF line = <<>> \/ StartsWith(line, <<"%","%">>) \/ ~Contains(line, Arrow)
           THEN C21_EdgesOf(Tail(ls), src)
           ELSE LET parts == Split(line, Arrow)
                    s == WordPrefix(Strip(parts[1]))
                    from == IF s # <<>> THEN s ELSE src
                    to == WordPrefix(WithoutLabel(Strip(parts[2])))
                IN  IF to = <<>> THEN C21_EdgesOf(Tail(ls), from)
                    ELSE IF from = Unbound THEN <<>>
                    ELSE << [source |-> from, target |-> to,
                             label |-> LabelOf(Strip(parts[2]))] >>
                           \o C21_EdgesOf(Tail(ls), from)

\* C21: generateBPMNDiagram emits the lines of the emitted edges in the order
\* their notation lines appeared in the input, and a notation line repeated n
\* times with both endpoints registered yields n copies of its output lines: the
\* edge list is the list of the edges of the lines read so far, in their order
\* and with every repetition, and the output holds the lines of these edges in
\* that order.
C21_EdgeOrderAndDuplicates ==
  ( fn = BPMN /\ "bpmn_mermaid" \in arg.keys /\ pc \in {"parse", "emit", "done"} )
  => LET edges == C21_EdgesOf(NotationLines(arg.text), Unbound)
     IN  /\ pc = "parse" =>
              connections \o C21_EdgesOf(lines, source_id) = edges
         /\ pc \in {"emit", "done"} => connections = edges
         /\ (pc = "done" /\ nodes # <<>>) =>
              ret = Join(BPMNHeader
                           \o << <<"|">>, <<"(","*",")"," ","-","-",">"," ","\"">> \o nodes[1].text \o <<"\"">> >>
                           \o LinesOfRegistered(edges, nodes)
                           \o << <<"-","-",">"," ","(","*",")">>, <<"@","e","n","d","u","m","l">> >>, <<NL>>)

\* a finished call whose input has the same line twice and a line of another
\* edge between the two, every end registered
C21_Witness ==
  /\ fn = BPMN /\ pc = "done"
  /\ Len(connections) = 3
  /\ connections[1] = connections[3]
  /\ connections[2] # connections[1]
  /\ \A i \in 1..3 : DictHas(nodes, connections[i].source)
                       /\ DictHas(nodes, connections[i].target)
  /\ Len(plantuml_lines)
       = Len(BPMNHeader) + 4 + Len(LinesOfRegistered(connections, nodes))

\* the display text a part of a notation line carries: its [text], else its
\* {text}, else none
C22_BodyOf(part) ==
  IF DelimitedGroup(part, "[", "]") # <<>> THEN DelimitedGroup(part, "[", "]")
  ELSE DelimitedGroup(part, "{", "}")

\* the sightings of identifiers in a sequence of notation lines, in the order
\* the translator meets them: the source side of a line, then its target side
RECURSIVE C22_Sightings(_)
C22_Sightings(ls) ==
  IF ls = <<>> THEN <<>>
  ELSE LET line == Strip(Head(ls))
       IN  IF line = <<>> \/ StartsWith(line, <<"%","%">>) \/ ~Contains(line, Arrow)
           THEN C22_Sightings(Tail(ls))
           ELSE LET parts == Split(line, Arrow)
                    sp == Strip(parts[1])
                    tp == WithoutLabel(Strip(parts[2]))
                IN  (IF WordPrefix(sp) # <<>>
                     THEN << [id |-> WordPrefix(sp), part |-> sp] >> ELSE <<>>)
                    \o (IF WordPrefix(tp) # <<>>
                        THEN << [id |-> WordPrefix(tp), part |-> tp] >> ELSE <<>>)
                    \o C22_Sightings(Tail(ls))

\* the text of the last sighting of id that has a body, among the sightings ss;
\* <<>> when id was never seen with a body
C22_TextOf(ss, id) ==
  LET with == {i \in 1..Len(ss) : ss[i].id = id /\ C22_BodyOf(ss[i].part) # <<>>}
  IN  IF with = {} THEN <<>>
      ELSE C22_BodyOf(ss[CHOOSE i \in with : \A j \in with : j <= i].part)

\* the output lines of a list of edges when every identifier shows the text of
\* its last sighting with a body
RECURSIVE C22_LinesOf(_, _)
C22_LinesOf(ss, conns) ==
  IF conns = <<>> THEN <<>>
  ELSE LET c == Head(conns)
           from == C22_TextOf(ss, c.source)
           to == C22_TextOf(ss, c.target)
       IN  (IF from # <<>> /\ to # <<>> THEN EdgeLines(from, to, c.label)
            ELSE <<>>)
           \o C22_LinesOf(ss, Tail(conns))

\* C22: in generateBPMNDiagram, when an identifier is seen with a body more
\* than once, the display text used for it in every output line (start line,
\* conditional header, transition target, conditional-detection test) is the
\* text of its last body-bearing sighting in the whole input, also for edges
\* whose notation line precedes that sighting; a sighting without a body leaves
\* the stored text unchanged, and a call that raises does so on a line without
\* a known source, never because of a repeated sighting.
C22_LastAssignmentWins ==
  /\ ( fn = BPMN /\ pc \in {"emit", "done"} /\ "bpmn_mermaid" \in arg.keys )
     => LET ss == C22_Sightings(NotationLines(arg.text))
        IN  /\ \A i \in 1..Len(nodes) :
                 nodes[i].text = C22_TextOf(ss, nodes[i].id)
            /\ \A i \in 1..Len(connections) :
                 /\ DictHas(nodes, connections[i].source)
                      <=> C22_TextOf(ss, connections[i].source) # <<>>
                 /\ DictHas(nodes, connections[i].target)
                      <=> C22_TextOf(ss, connections[i].target) # <<>>
            /\ nodes # <<>> =>
                 plantuml_lines =
                   BPMNHeader
                     \o << <<"|">>,
                           <<"(","*",")"," ","-","-",">"," ","\"">> \o C22_TextOf(ss, nodes[1].id) \o <<"\"">> >>
                     \o C22_LinesOf(ss, Visited)
                     \o (IF pc = "done" THEN << <<"-","-",">"," ","(","*",")">>, <<"@","e","n","d","u","m","l">> >>
                         ELSE <<>>)
  /\ ( fn = BPMN /\ pc = "raised" )
     => source_id = Unbound /\ WordPrefix(SourcePartOf(BPMN, Head(lines))) = <<>>

\* a finished call in which an identifier was seen with two different bodies,
\* then without one, and an edge read before the second body shows the second
C22_Witness ==
  /\ fn = BPMN /\ pc = "done"
  /\ LET ss == C22_Sightings(NotationLines(arg.text))
     IN  \E i \in 1..Len(ss), j \in 1..Len(ss), k \in 1..Len(ss) :
           /\ i < j /\ j < k
           /\ ss[i].id = ss[j].id /\ ss[k].id = ss[j].id
           /\ C22_BodyOf(ss[i].part) # <<>>
           /\ C22_BodyOf(ss[j].part) # <<>>
           /\ C22_BodyOf(ss[i].part) # C22_BodyOf(ss[j].part)
           /\ C22_BodyOf(ss[k].part) = <<>>
           /\ DictGet(nodes, ss[j].id) = C22_BodyOf(ss[j].part)
           /\ connections # <<>>
           /\ ss[j].id \in {connections[1].source, connections[1].target}
           /\ EdgeEmitted(nodes, connections[1])
           /\ \E n \in 1..Len(plantuml_lines) :
                Contains(plantuml_lines[n],
                         <<"\"">> \o C22_BodyOf(ss[j].part) \o <<"\"">>)

-----------------------------------------------------------------------------
(* validate_plantuml_syntax alone *)

InitValidate == fn = VALIDATE /\ arg \in FixArgs /\ Fresh

\* one call of validate_plantuml_syntax
SpecValidate == InitValidate /\ [][ValidateCall]_vars

\* how many lines of a text start, once stripped, with word
C23_LinesStarting(code, word) ==
  Len(SelectSeq(Split(code, <<NL>>), LAMBDA l : StartsWith(Strip(l), word)))

\* the mismatch errors of a list of errors
C23_Mismatches(errors) == SelectSeq(errors, LAMBDA e : e[1] = "if/endif mismatch")

\* C23: validate_plantuml_syntax reports the if/endif mismatch error exactly
\* when the number of lines whose stripped form starts with 'if ' differs from
\* the number whose stripped form starts with 'endif', whatever their order (an
\* 'endif' line before its 'if' line with equal counts gives no mismatch
\* error), the error names the two counts, and the call leaves the input text as
\* it was.
C23_CountOnlyBalance ==
  [][ ( fn = VALIDATE /\ pc = "call" )
      => LET ifs == C23_LinesStarting(arg, <<"i","f"," ">>)
             endifs == C23_LinesStarting(arg, <<"e","n","d","i","f">>)
         IN  /\ arg' = arg
             /\ pc' = "done"
             /\ ret'.valid <=> ret'.errors = <<>>
             /\ C23_Mismatches(ret'.errors) =
                  IF ifs # endifs
                  THEN << <<"if/endif mismatch", ToString(ifs),
                            ToString(endifs)>> >>
                  ELSE <<>> ]_vars

\* a finished call on a text whose 'endif' line comes before its only 'if' line:
\* no mismatch is reported
C23_Witness ==
  /\ fn = VALIDATE /\ pc = "done"
  /\ LET ls == Split(arg, <<NL>>)
     IN  /\ \E i \in 1..Len(ls), j \in 1..Len(ls) :
              /\ i < j
              /\ StartsWith(Strip(ls[i]), <<"e","n","d","i","f">>)
              /\ StartsWith(Strip(ls[j]), <<"i","f"," ">>)
         /\ C23_LinesStarting(arg, <<"i","f"," ">>) = 1
         /\ C23_LinesStarting(arg, <<"e","n","d","i","f">>) = 1
  /\ C23_Mismatches(ret.errors) = <<>>

-----------------------------------------------------------------------------
(* render_plantuml of plantuml_generator.py *)

RENDER == "render_plantuml"

\* auto_fix_plantuml as the one value its caller sees: the steps of FixCall,
\* FixTypo, FixColon, FixThen, FixBalance and FixRecheck, one after the other
AutoFix(code) ==
  IF ValidateErrors(code) = <<>> THEN [code |-> code, fixes |-> <<>>]
  ELSE LET typo == IF Contains(code, <<"!","t","h","m","e">>)
                   THEN << Replace(code, <<"!","t","h","m","e">>, <<"!","t","h","e","m","e">>),
                           << <<"fixed !thme">> >> >>
                   ELSE << code, <<>> >>
           colon == ColonPasses(typo[1], 1)
           then == ThenPass(colon[1])
           balanced == ValidateIfStructure(then[1])
           fixes == typo[2] \o colon[2] \o then[2]
       IN  [code |-> balanced,
            fixes |-> IF ValidateErrors(balanced) # <<>>
                      THEN Append(fixes, RemainingEntry(ValidateErrors(balanced)))
                      ELSE fixes]

\* lines 285-297: the parameter, and the return on an empty text
RenderCall ==
  /\ fn = RENDER /\ pc = "call"
  /\ plantuml_code' = arg
  /\ IF arg = <<>>
     THEN /\ ret' = [renderer |-> "none", code |-> <<>>]
          /\ pc' = "done"
     ELSE /\ ret' = ret
          /\ pc' = "fix"
  /\ UNCHANGED <<fn, arg, lines, nodes, actors, usecases, connections, source_id,
                 todo, plantuml_lines, fixed_code, fixes_applied, history>>

\* lines 300-307: the repair, whose text replaces the parameter when the
\* diagnostics are not empty
RenderFix ==
  /\ fn = RENDER /\ pc = "fix"
  /\ fixed_code' = AutoFix(plantuml_code).code
  /\ fixes_applied' = AutoFix(plantuml_code).fixes
  /\ plantuml_code' = IF fixes_applied' # <<>> THEN fixed_code' ELSE plantuml_code
  /\ pc' = "local"
  /\ UNCHANGED <<fn, arg, lines, nodes, actors, usecases, connections, source_id,
                 todo, plantuml_lines, ret, history>>

\* lines 313-319: the local renderer is given the text and the call returns, or
\* there is no local renderer, or it raises; ret keeps what a renderer was given
RenderLocal ==
  /\ fn = RENDER /\ pc = "local"
  /\ \E outcome \in {"rendered", "failed"} :
       IF outcome = "rendered"
       THEN /\ ret' = [renderer |-> "local", code |-> plantuml_code]
            /\ pc' = "done"
       ELSE /\ ret' = ret
            /\ pc' = "online"
  /\ UNCHANGED <<fn, arg, lines, nodes, actors, usecases, connections, source_id,
                 todo, plantuml_lines, fixed_code, fixes_applied, history,
                 plantuml_code>>

\* lines 321-338: the text goes into the addresses of the online servers
RenderOnline ==
  /\ fn = RENDER /\ pc = "online"
  /\ ret' = [renderer |-> "online", code |-> plantuml_code]
  /\ pc' = "done"
  /\ UNCHANGED <<fn, arg, lines, nodes, actors, usecases, connections, source_id,
                 todo, plantuml_lines, fixed_code, fixes_applied, history,
                 plantuml_code>>

InitRender == fn = RENDER /\ arg \in FixArgs /\ Fresh

NextRender ==
  \/ RenderCall
  \/ RenderFix
  \/ RenderLocal
  \/ RenderOnline

SpecRender == InitRender /\ [][NextRender]_vars

\* C24: in render_plantuml, whenever auto_fix_plantuml returns a text different
\* from the input text, the text handed to the local or online renderer is the
\* repaired text, not the original text.
C24_RepairBeforeRender ==
  ( /\ fn = RENDER /\ pc = "done" /\ ret.renderer \in {"local", "online"}
    /\ AutoFix(arg).code # arg )
  => ret.code = AutoFix(arg).code

-----------------------------------------------------------------------------
(* Relation lines of generateUseCaseDiagram *)

\* notation lines with either connector, with both, with and without a label
UCRelationInputLines ==
  { <<"A","[","u","]"," ","-","-",">"," ","B","(","(","l",")",")">>,
    <<"B","[","w","]"," ","-",".","-",">"," ","A","(","(","v",")",")">>,
    <<"A","[","u","]"," ","-","-",">","|","d","o","e","s","|"," ","C","(","(","m",")",")">>,
    <<" "," ","B","(","(","l",")",")"," ","-",".","-",">","|","i","n","c","|"," ","C","(","(","m",")",")">>,
    <<"C","(","(","m",")",")"," ","-","-",">"," ","D">>,
    <<"A","[","u","]"," ","-",".","-",">"," ","B","(","(","l",")",")"," ","-","-",">"," ","C","(","(","m",")",")">> }

UCRelationArgs ==
  { [keys |-> {"other"}, text |-> <<>>] }
    \cup { [keys |-> {"usecase_mermaid"}, text |-> t] :
             t \in TextsOf(UCRelationInputLines, MaxLines) }

InitUCRelations == fn = UC /\ arg \in UCRelationArgs /\ Fresh

\* one call of generateUseCaseDiagram on these lines
SpecUCRelations == InitUCRelations /\ [][NextUC]_vars

\* the relation lines a sequence of notation lines stands for: for every line
\* that gives an edge, the source, the connector '-->' when the line contains
\* '-->' and '.->' when it contains '-.->' only, the label in quotes when the
\* target side had one between pipes, and the target
RECURSIVE C25_RelationsOf(_, _)
C25_RelationsOf(ls, src) ==
  IF ls = <<>> THEN <<>>
  ELSE LET line == Strip(Head(ls))
           solid == Contains(line, <<"-","-",">">>)
           dashed == Contains(line, <<"-",".","-",">">>) /\ ~solid
       IN  IF line = <<>> \/ StartsWith(line, <<"%","%">>) \/ ~(solid \/ dashed)
           THEN C25_RelationsOf(Tail(ls), src)
           ELSE LET parts == Split(line, IF solid THEN <<"-","-",">">> ELSE <<"-",".","-",">">>)
                    s == PartMatch(Strip(parts[1]))
                    from == IF s # <<>> THEN s[1] ELSE src
                    label == DelimitedGroup(Strip(parts[2]), "|", "|")
                    t == PartMatch(WithoutLabel(Strip(parts[2])))
                IN  IF t = <<>> THEN C25_RelationsOf(Tail(ls), from)
                    ELSE IF from = Unbound THEN <<>>
                    ELSE << from \o <<" ">> \o (IF solid THEN <<"-","-",">">> ELSE <<".","-",">">>)
                              \o (IF label # <<>> THEN <<" ","\"">> \o label \o <<"\"">>
                                  ELSE <<>>)
                              \o <<" ">> \o t[1] >>
                           \o C25_RelationsOf(Tail(ls), from)

\* C25: each relationship line emitted by generateUseCaseDiagram uses the
\* connector '-->' when its notation line contains '-->' and '.->' when its
\* notation line contains '-.->' but not '-->', and has a quoted label between
\* connector and target exactly when a |label| was captured on the target side
\* of that notation line: after the two blocks of declarations the output holds
\* these lines, one for each edge, and the footer.
C25_ConnectorAndLabel ==
  ( fn = UC /\ pc = "done" /\ "usecase_mermaid" \in arg.keys )
  => LET relations == C25_RelationsOf(NotationLines(arg.text), Unbound)
     IN  /\ Len(relations) = Len(connections)
         /\ Len(plantuml_lines)
              = Len(UCHeader) + Len(actors) + Len(usecases) + Len(relations) + 3
         /\ EndsWith(plantuml_lines, relations \o << <<"@","e","n","d","u","m","l">> >>)
         /\ ret = Join(plantuml_lines, <<NL>>)

\* a finished call that wrote a dashed relation with a label, a solid relation
\* with a label and a solid relation without one
C25_Witness ==
  /\ fn = UC /\ pc = "done"
  /\ \E i \in 1..Len(plantuml_lines) : Contains(plantuml_lines[i], <<" ",".","-",">"," ","\"">>)
  /\ \E i \in 1..Len(plantuml_lines) : Contains(plantuml_lines[i], <<" ","-","-",">"," ","\"">>)
  /\ \E i \in 1..Len(plantuml_lines) :
       /\ Contains(plantuml_lines[i], <<" ","-","-",">"," ">>)
       /\ ~Contains(plantuml_lines[i], <<"\"">>)

-----------------------------------------------------------------------------
(* The order of the repairs and their gate *)

\* the place of a diagnostics entry in the order of the repairs
C26_Rank(entry) ==
  CASE entry[1] = "fixed !thme" -> 1
    [] entry[1] = "colon removed" -> 2
    [] entry[1] = "then added" -> 3
    [] entry[1] = "remaining errors" -> 4

\* a line after the typo replacement and after the colon strip
C26_Stripped(line) ==
  LET typo == Replace(line, <<"!","t","h","m","e">>, <<"!","t","h","e","m","e">>)
  IN  IF HasSpuriousColon(typo) THEN WithoutColon(typo) ELSE typo

\* a line after the three repairs of lines, made in their order
C26_Repaired(line) ==
  IF StartsWith(Strip(C26_Stripped(line)), <<"i","f"," ">>)
       /\ ~Contains(C26_Stripped(line), <<" ","t","h","e","n">>)
  THEN RStrip(C26_Stripped(line)) \o <<" ","t","h","e","n">>
  ELSE C26_Stripped(line)

\* C26: auto_fix_plantuml applies typo replacement, then colon stripping, then
\* 'then' appending, then endif insertion: a line ':if (x)' is first turned
\* into 'if (x)', then gets ' then' appended, then is counted as a
\* conditional-open by the balance scan; in the diagnostics the typo entry
\* precedes all colon entries, colon entries precede all 'then' entries, and a
\* remaining-errors entry, when present, is last.
C26_FixedRepairOrder ==
  ( fn = AUTOFIX /\ pc = "done" /\ ValidateErrors(arg) # <<>> )
  => LET ls == CodeLines(arg)
         repaired == [k \in 1..Len(ls) |-> C26_Repaired(ls[k])]
         out == CodeLines(ret.code)
     IN  /\ \A i \in 1..Len(ret.fixes), j \in 1..Len(ret.fixes) :
              i < j => C26_Rank(ret.fixes[i]) <= C26_Rank(ret.fixes[j])
         /\ Len(EntriesNamed(ret.fixes, "remaining errors")) <= 1
         /\ \A k \in 1..Len(ls) :
              ( HasSpuriousColon(ls[k]) /\ StartsWith(LStrip(ls[k]), <<":","i","f"," ">>)
                /\ ~Contains(ls[k], <<" ","t","h","e","n">>) )
              => /\ \E i \in 1..Len(ret.fixes), j \in 1..Len(ret.fixes) :
                      /\ i < j
                      /\ ret.fixes[i]
                           = <<"colon removed">>
                               \o Strip(Replace(ls[k], <<"!","t","h","m","e">>, <<"!","t","h","e","m","e">>))
                      /\ ret.fixes[j]
                           = <<"then added">> \o Strip(C26_Stripped(ls[k]))
                 /\ \E n \in 1..Len(out) :
                      out[n] = RStrip(C26_Stripped(ls[k])) \o <<" ","t","h","e","n">>
         /\ SelectSeq(out, LAMBDA l : l # <<"e","n","d","i","f">>)
              = SelectSeq(repaired, LAMBDA l : l # <<"e","n","d","i","f">>)
         /\ Len(out) - Len(ls) = Len(IfStack(repaired, Len(repaired)))

\* a finished call on a text with '!thme' and an indented ':if (x)' and without
\* markers: an entry of each kind, and one 'endif' line more
C26_Witness ==
  /\ fn = AUTOFIX /\ pc = "done"
  /\ \A r \in 1..4 : \E i \in 1..Len(ret.fixes) : C26_Rank(ret.fixes[i]) = r
  /\ \E k \in 1..Len(CodeLines(arg)) : CodeLines(arg)[k] = <<" "," ",":","i","f"," ","(","x",")">>
  /\ \E n \in 1..Len(CodeLines(ret.code)) :
       CodeLines(ret.code)[n] = <<" "," ","i","f"," ","(","x",")"," ","t","h","e","n">>
  /\ Len(CodeLines(ret.code)) = Len(CodeLines(arg)) + 1

\* C27: for every text on which validate_plantuml_syntax returns is_valid =
\* true, auto_fix_plantuml returns the input text unchanged together with an
\* empty diagnostics list; no repair step runs.
C27_RepairGatedOnValidation ==
  ( fn = AUTOFIX /\ ValidateErrors(arg) = <<>> )
  => /\ pc \in {"call", "done"}
     /\ pc = "done" => ret = [code |-> arg, fixes |-> <<>>]
     /\ fixed_code \in {<<>>, arg}
     /\ fixes_applied = <<>>

\* a finished call on a valid text that has an 'if ' line without 'then', which
\* a repair step would have changed
C27_Witness ==
  /\ fn = AUTOFIX /\ pc = "done"
  /\ ValidateErrors(arg) = <<>>
  /\ \E k \in 1..Len(CodeLines(arg)) : LacksThen(CodeLines(arg)[k])
  /\ ret.code = arg

\* the kinds of the errors validate_plantuml_syntax reports on a text
C28_ErrorKinds(code) ==
  {ValidateErrors(code)[i][1] : i \in 1..Len(ValidateErrors(code))}

\* C28: for every input text t, each error kind reported by
\* validate_plantuml_syntax on the text returned by auto_fix_plantuml(t) is also
\* reported on t; in particular a text whose 'if' and 'endif' line counts are
\* equal before repair still has equal counts after repair.
C28_NoNewValidationError ==
  ( fn = AUTOFIX /\ pc = "done" )
  => /\ C28_ErrorKinds(ret.code) \subseteq C28_ErrorKinds(arg)
     /\ C23_LinesStarting(arg, <<"i","f"," ">>) = C23_LinesStarting(arg, <<"e","n","d","i","f">>)
          => C23_LinesStarting(ret.code, <<"i","f"," ">>)
               = C23_LinesStarting(ret.code, <<"e","n","d","i","f">>)

-----------------------------------------------------------------------------
(* The output of generateBPMNDiagram given to auto_fix_plantuml *)

\* notation lines with conditions as sources
PipelineLines ==
  { <<"B","[","b","]"," ","-","-",">"," ","C","{","c","?","}">>,
    <<"C","{","c","?","}"," ","-","-",">","|","y","|"," ","A","[","a","]">>,
    <<"A","[","a","]"," ","-","-",">"," ","B","[","b","]">>,
    <<"C","{","c","?","}"," ","-","-",">"," ","B","[","b","]">> }

PipelineArgs ==
  { [keys |-> {"other"}, text |-> <<>>] }
    \cup { [keys |-> {"bpmn_mermaid"}, text |-> t] :
             t \in TextsOf(PipelineLines, MaxLines) }

\* the text generateBPMNDiagram returned is the argument of auto_fix_plantuml
PipelineRepair ==
  /\ fn = BPMN /\ pc = "done" /\ history = <<>>
  /\ history' = Append(history, [fn |-> fn, arg |-> arg, pc |-> pc, ret |-> ret])
  /\ fn' = AUTOFIX
  /\ arg' = ret
  /\ pc' = "call"
  /\ ret' = NoValue
  /\ UNCHANGED <<lines, nodes, actors, usecases, connections, source_id, todo,
                 plantuml_lines, fixed_code, fixes_applied, plantuml_code>>

InitPipeline == fn = BPMN /\ arg \in PipelineArgs /\ Fresh

NextPipeline ==
  \/ NextBPMN
  \/ PipelineRepair
  \/ FixCall
  \/ FixTypo
  \/ FixColon
  \/ FixThen
  \/ FixBalance
  \/ FixRecheck

SpecPipeline == InitPipeline /\ [][NextPipeline]_vars

\* the edges of the call of generateBPMNDiagram that were written as
\* conditionals
C29_ConditionalEdges ==
  Cardinality({i \in 1..Len(connections) :
                 /\ DictHas(nodes, connections[i].source)
                 /\ DictHas(nodes, connections[i].target)
                 /\ HasConditionMarker(DictGet(nodes, connections[i].source))})

\* C29: for every notation text on which generateBPMNDiagram returns, its
\* output contains one 'if' line per emitted conditional edge and no 'endif'
\* line, and the text returned by auto_fix_plantuml on that output has as many
\* 'endif' lines as 'if' lines, so validate_plantuml_syntax reports no if/endif
\* mismatch on it.
C29_TranslateThenRepairBalance ==
  /\ ( fn = BPMN /\ pc = "done" )
     => /\ C23_LinesStarting(ret, <<"i","f"," ">>) = C29_ConditionalEdges
        /\ C23_LinesStarting(ret, <<"e","n","d","i","f">>) = 0
  /\ ( fn = AUTOFIX /\ pc = "done" /\ history # <<>> /\ history[1].fn = BPMN )
     => /\ arg = history[1].ret
        /\ C23_LinesStarting(ret.code, <<"i","f"," ">>) = C29_ConditionalEdges
        /\ C23_LinesStarting(ret.code, <<"e","n","d","i","f">>) = C29_ConditionalEdges
        /\ C23_Mismatches(ValidateErrors(ret.code)) = <<>>

\* a repaired output of generateBPMNDiagram with two conditional edges
C29_Witness ==
  /\ fn = AUTOFIX /\ pc = "done" /\ history # <<>> /\ history[1].fn = BPMN
  /\ C29_ConditionalEdges = 2
  /\ C23_LinesStarting(arg, <<"e","n","d","i","f">>) = 0
  /\ C23_LinesStarting(ret.code, <<"e","n","d","i","f">>) = 2

\* C30: whenever validate_plantuml_syntax rejects the input, the diagnostics
\* returned by auto_fix_plantuml contain exactly one remaining-errors entry if
\* validate_plantuml_syntax still reports at least one error on the returned
\* text, and contain no such entry if the returned text validates cleanly; so
\* the returned text is valid whenever no remaining-errors entry is present.
\* The entry is the last one and names the errors that remain.
C30_RemainingErrorsEntry ==
  ( fn = AUTOFIX /\ pc = "done" /\ ValidateErrors(arg) # <<>> )
  => LET remaining == EntriesNamed(ret.fixes, "remaining errors")
         errors == ValidateErrors(ret.code)
     IN  /\ Len(remaining) = IF errors # <<>> THEN 1 ELSE 0
         /\ errors # <<>>
              => ret.fixes[Len(ret.fixes)]
                   = <<"remaining errors">> \o JoinErrors(errors)
         /\ remaining = <<>> => errors = <<>>

\* a finished call on a rejected text whose repairs were logged and whose
\* returned text validates cleanly: no remaining-errors entry
C30_Witness ==
  /\ fn = AUTOFIX /\ pc = "done"
  /\ ValidateErrors(arg) # <<>>
  /\ ret.fixes # <<>>
  /\ EntriesNamed(ret.fixes, "remaining errors") = <<>>
  /\ ValidateErrors(ret.code) = <<>>
====
